---- MODULE Spec2Model ----
(***************************************************************************)
(* Sawyer::Container::IntervalMap (src/src/util/sawyer/IntervalMap.h) with *)
(* the default MergePolicy, over an unsigned scalar type whose largest     *)
(* value is ScalarMax and whose arithmetic wraps modulo ScalarMax + 1.     *)
(***************************************************************************)
EXTENDS Integers, Sequences, FiniteSets, TLC

\* Largest value of Interval::Value (std::numeric_limits<Value>::max()).
ScalarMax == 6

Modulus == ScalarMax + 1
Scalars == 0 .. ScalarMax

\* The user-defined values stored in the container.
Values == {"a", "b"}

\* Optional<Value>() : the "nothing" result of getOptional.
Nothing == "nothing"

Wrap(x) == x % Modulus

----------------------------------------------------------------------------
(* Sawyer::Container::Interval : a closed interval [lo, hi]; the default-  *)
(* constructed empty interval is lo = 1, hi = 0.                           *)

EmptyInterval == [lo |-> 1, hi |-> 0]

isEmpty(i) == i.lo = 1 /\ i.hi = 0

Hull(a, b) == [lo |-> IF a <= b THEN a ELSE b, hi |-> IF a <= b THEN b ELSE a]

Singleton(s) == [lo |-> s, hi |-> s]

\* Interval::size() : 0 for the empty interval and, by wrap-around, for the
\* interval that spans the whole domain.
IntervalSize(i) == IF isEmpty(i) THEN 0 ELSE Wrap(i.hi - i.lo + 1)

IntervalIsOverlapping(a, b) ==
    /\ ~isEmpty(a)
    /\ ~isEmpty(b)
    /\ (IF a.lo >= b.lo THEN a.lo ELSE b.lo) <= (IF a.hi <= b.hi THEN a.hi ELSE b.hi)

IntervalIsContaining(a, b) ==
    isEmpty(b) \/ (~isEmpty(a) /\ a.lo <= b.lo /\ a.hi >= b.hi)

isLeftOf(a, b) == isEmpty(a) \/ isEmpty(b) \/ a.hi < b.lo

\* Every non-empty interval of the domain, and the empty one.
NonEmptyIntervals == {Hull(a, b) : a \in Scalars, b \in Scalars}
Intervals == NonEmptyIntervals \cup {EmptyInterval}

----------------------------------------------------------------------------
(* Sawyer::Container::Map<Interval, Value, IntervalCompare> : a sequence   *)
(* of nodes [key, value] kept in IntervalCompare order.  An iterator is a  *)
(* position 1 .. Len(m); Len(m) + 1 is the end iterator.                   *)

IntervalCompare(a, b) == a.hi < b.hi

End(m) == Len(m) + 1

Node(k, v) == [key |-> k, value |-> v]

\* std::map::lower_bound : first node whose key is not less than the key.
RECURSIVE LowerBoundFrom(_, _, _)
LowerBoundFrom(m, key, i) ==
    IF i > Len(m) THEN End(m)
    ELSE IF ~IntervalCompare(m[i].key, key) THEN i
    ELSE LowerBoundFrom(m, key, i + 1)

MapLowerBound(m, key) == LowerBoundFrom(m, key, 1)

\* Map::insert : insert a new node, or overwrite the value of the node
\* whose key is equivalent under the comparator.
MapInsert(m, key, value) ==
    LET i == MapLowerBound(m, key) IN
    IF i <= Len(m) /\ ~IntervalCompare(key, m[i].key)
    THEN [m EXCEPT ![i].value = value]
    ELSE SubSeq(m, 1, i - 1) \o <<Node(key, value)>> \o SubSeq(m, i, Len(m))

\* Map::eraseAt
MapEraseAt(m, i) == SubSeq(m, 1, i - 1) \o SubSeq(m, i + 1, Len(m))

\* Map::eraseAtMultiple(begin, end) : erase the nodes in [begin, end).
MapEraseAtMultiple(m, b, e) == SubSeq(m, 1, b - 1) \o SubSeq(m, e, Len(m))

\* Map::insertMultiple : insert every node of a range, in order.
RECURSIVE MapInsertMultiple(_, _)
MapInsertMultiple(m, nodes) ==
    IF nodes = <<>> THEN m
    ELSE MapInsertMultiple(MapInsert(m, Head(nodes).key, Head(nodes).value), Tail(nodes))

----------------------------------------------------------------------------
(* MergePolicy<I, T> : the default policy.                                 *)

\* A policy that never lets neighbours fuse.
mergeNever(leftInterval, leftValue, rightInterval, rightValue) == FALSE

\* merge : true iff the values are equal; neither value is changed.
merge(leftInterval, leftValue, rightInterval, rightValue) == leftValue = rightValue

\* split : the value is left as it is and a copy is the right value.
split(interval, value, splitPoint) == [left |-> value, right |-> value]

\* truncate : the value is left as it is.
truncate(interval, value, splitPoint) == value

----------------------------------------------------------------------------
(* IntervalMap : searching, capacity and predicates.                       *)

lowerBound(m, scalar) == MapLowerBound(m, Singleton(scalar))

find(m, scalar) ==
    LET found == lowerBound(m, scalar) IN
    IF found = End(m) \/ scalar < m[found].key.lo THEN End(m) ELSE found

findFirstOverlap(m, interval) ==
    LET lb == lowerBound(m, interval.lo) IN
    IF lb # End(m) /\ IntervalIsOverlapping(interval, m[lb].key) THEN lb ELSE End(m)

\* The pair of iterators findFirstOverlap(thisIter, other, otherIter) returns.
IteratorPair(thisIter, otherIter) == [first |-> thisIter, second |-> otherIter]

RECURSIVE findFirstOverlapAdvancingOther(_, _, _, _)
findFirstOverlapAdvancingOther(m, thisIter, other, otherIter) ==
    IF thisIter = End(m) \/ otherIter = End(other)
    THEN IteratorPair(End(m), End(other))
    ELSE IF IntervalIsOverlapping(m[thisIter].key, other[otherIter].key)
    THEN IteratorPair(thisIter, otherIter)
    ELSE findFirstOverlapAdvancingOther(m, thisIter, other, otherIter + 1)

\* findFirstOverlap(thisIter, other, otherIter): the loop that steps the
\* iterator whose node ends first until the two nodes overlap or either
\* iterator reaches its end.
RECURSIVE findFirstOverlapWith(_, _, _, _)
findFirstOverlapWith(m, thisIter, other, otherIter) ==
    IF thisIter = End(m) \/ otherIter = End(other)
    THEN IteratorPair(End(m), End(other))
    ELSE IF IntervalIsOverlapping(m[thisIter].key, other[otherIter].key)
    THEN IteratorPair(thisIter, otherIter)
    ELSE IF m[thisIter].key.hi < other[otherIter].key.hi
    THEN findFirstOverlapWith(m, thisIter + 1, other, otherIter)
    ELSE findFirstOverlapWith(m, thisIter, other, otherIter + 1)

getOptional(m, scalar) ==
    LET found == find(m, scalar) IN
    IF found = End(m) THEN Nothing ELSE m[found].value

isEmptyMap(m) == Len(m) = 0

nIntervals(m) == Len(m)

\* size() confused with nIntervals().
sizeAsNodeCount(m) == Wrap(Len(m))

RECURSIVE SizeFrom(_, _, _)
SizeFrom(m, i, sum) ==
    IF i > Len(m) THEN sum
    ELSE SizeFrom(m, i + 1, Wrap(sum + IntervalSize(m[i].key)))

size(m) == SizeFrom(m, 1, 0)

least(m) == m[1].key.lo

greatest(m) == m[Len(m)].key.hi

\* hull() that answers the interval [0,0] for an empty map.
hullOfEmptyAsZero(m) == IF isEmptyMap(m) THEN Singleton(0) ELSE Hull(least(m), greatest(m))

hull(m) == IF isEmptyMap(m) THEN EmptyInterval ELSE Hull(least(m), greatest(m))

isOverlapping(m, interval) == findFirstOverlap(m, interval) # End(m)

\* splitInterval whose left part keeps the split point.
splitIntervalOffByOne(interval, splitPoint) ==
    [first |-> Hull(interval.lo, splitPoint), second |-> Hull(splitPoint, interval.hi)]

splitInterval(interval, splitPoint) ==
    [first |-> Hull(interval.lo, splitPoint - 1), second |-> Hull(splitPoint, interval.hi)]

\* contains that never steps to the next node.
ContainsFromOneNode(m, key, found) ==
    /\ found # End(m)
    /\ key.lo >= m[found].key.lo
    /\ key.hi <= m[found].key.hi

RECURSIVE ContainsFrom(_, _, _)
ContainsFrom(m, key, found) ==
    IF found = End(m) THEN FALSE
    ELSE IF key.lo < m[found].key.lo THEN FALSE
    ELSE IF key.hi <= m[found].key.hi THEN TRUE
    ELSE ContainsFrom(m, splitInterval(key, Wrap(m[found].key.hi + 1)).second, found + 1)

contains(m, key) ==
    IF isEmpty(key) THEN TRUE ELSE ContainsFrom(m, key, find(m, key.lo))

\* Whether an ASSERT_require of contains, or of the splitInterval it calls,
\* fails on this call.
RECURSIVE ContainsAssertsFrom(_, _, _)
ContainsAssertsFrom(m, key, found) ==
    IF found = End(m) THEN FALSE
    ELSE IF key.lo < m[found].key.lo THEN FALSE
    ELSE IF ~IntervalIsOverlapping(key, m[found].key) THEN TRUE
    ELSE IF key.hi <= m[found].key.hi THEN FALSE
    ELSE LET splitPoint == Wrap(m[found].key.hi + 1) IN
         IF ~(splitPoint > key.lo /\ splitPoint <= key.hi) THEN TRUE
         ELSE ContainsAssertsFrom(m, splitInterval(key, splitPoint).second, found + 1)

containsAsserts(m, key) ==
    ~isEmpty(key) /\ ContainsAssertsFrom(m, key, find(m, key.lo))

\* Optional<T>(v) and Optional<T>() / Nothing() as results of the accessors.
OptionalOf(v) == [kind |-> "value", value |-> v]
NothingOf == [kind |-> "nothing"]

findPrior(m, scalar) ==
    IF isEmptyMap(m) THEN End(m)
    ELSE LET lb == lowerBound(m, scalar) IN
         IF lb # End(m) /\ m[lb].key.lo <= scalar THEN lb
         ELSE IF lb = 1 THEN End(m)
         ELSE lb - 1

\* isLarge that compares the wrapped size only.
isLargeNoOverflow(interval, size_) ==
    ~isEmpty(interval) /\ IntervalSize(interval) >= size_

isLarge(interval, size_) ==
    ~isEmpty(interval) /\ (IntervalSize(interval) = 0 \/ IntervalSize(interval) >= size_)

RECURSIVE FirstFitFrom(_, _, _)
FirstFitFrom(m, size_, iter) ==
    IF iter = End(m) THEN End(m)
    ELSE IF isLarge(m[iter].key, size_) THEN iter
    ELSE FirstFitFrom(m, size_, iter + 1)

firstFit(m, size_, start) == FirstFitFrom(m, size_, start)

\* Interval::size() in a scalar type of the given number of values.
IntervalSizeOf(i, modulus) == IF isEmpty(i) THEN 0 ELSE (i.hi - i.lo + 1) % modulus

\* The loop of bestFit without the early return for an exact fit.
RECURSIVE BestFitFromNoExact(_, _, _, _, _)
BestFitFromNoExact(m, size_, iter, best, modulus) ==
    IF iter = End(m) THEN best
    ELSE LET sz == IntervalSizeOf(m[iter].key, modulus) IN
         IF /\ sz > size_
            /\ (best = End(m) \/ sz < IntervalSizeOf(m[best].key, modulus))
         THEN BestFitFromNoExact(m, size_, iter + 1, iter, modulus)
         ELSE BestFitFromNoExact(m, size_, iter + 1, best, modulus)

\* The loop of bestFit, from iter on, with best the best node so far.
RECURSIVE BestFitFrom(_, _, _, _, _)
BestFitFrom(m, size_, iter, best, modulus) ==
    IF iter = End(m) THEN best
    ELSE LET sz == IntervalSizeOf(m[iter].key, modulus) IN
         IF sz = size_ /\ size_ # 0 THEN iter
         ELSE IF /\ sz > size_
                 /\ (best = End(m) \/ sz < IntervalSizeOf(m[best].key, modulus))
              THEN BestFitFrom(m, size_, iter + 1, iter, modulus)
              ELSE BestFitFrom(m, size_, iter + 1, best, modulus)

bestFit(m, size_, start) == BestFitFrom(m, size_, start, End(m), Modulus)

\* operator[] that answers for the nearest node at or above the scalar.
operatorSubscriptLowerBound(m, scalar) ==
    LET found == lowerBound(m, scalar) IN
    IF found = End(m) THEN [kind |-> "domain_error"] ELSE OptionalOf(m[found].value)

\* operator[] : the value of the node holding the scalar, or the
\* std::domain_error thrown.
operatorSubscript(m, scalar) ==
    LET found == find(m, scalar) IN
    IF found = End(m) THEN [kind |-> "domain_error"] ELSE OptionalOf(m[found].value)

\* The loop of leastUnmapped: lowerLimit steps past each node it lies in.
RECURSIVE LeastUnmappedFrom(_, _, _)
LeastUnmappedFrom(m, lowerLimit, iter) ==
    IF iter = End(m) THEN OptionalOf(lowerLimit)
    ELSE IF lowerLimit < m[iter].key.lo THEN OptionalOf(lowerLimit)
    ELSE LET next == Wrap(m[iter].key.hi + 1) IN
         IF next < m[iter].key.hi THEN NothingOf
         ELSE LeastUnmappedFrom(m, next, iter + 1)

\* leastUnmapped without the overflow test.
RECURSIVE LeastUnmappedNoOverflowFrom(_, _, _)
LeastUnmappedNoOverflowFrom(m, lowerLimit, iter) ==
    IF iter = End(m) THEN OptionalOf(lowerLimit)
    ELSE IF lowerLimit < m[iter].key.lo THEN OptionalOf(lowerLimit)
    ELSE LeastUnmappedNoOverflowFrom(m, Wrap(m[iter].key.hi + 1), iter + 1)

leastUnmappedNoOverflow(m, lowerLimit) ==
    LeastUnmappedNoOverflowFrom(m, lowerLimit, lowerBound(m, lowerLimit))

leastUnmapped(m, lowerLimit) ==
    LeastUnmappedFrom(m, lowerLimit, lowerBound(m, lowerLimit))

\* The loop of greatestUnmapped: iter steps down until the first node.
RECURSIVE GreatestUnmappedFrom(_, _, _)
GreatestUnmappedFrom(m, upperLimit, iter) ==
    IF iter = End(m) THEN OptionalOf(upperLimit)
    ELSE IF upperLimit > m[iter].key.hi THEN OptionalOf(upperLimit)
    ELSE LET next == Wrap(m[iter].key.lo - 1) IN
         IF next > m[iter].key.lo THEN NothingOf
         ELSE IF iter = 1 THEN OptionalOf(next)
         ELSE GreatestUnmappedFrom(m, next, iter - 1)

\* greatestUnmapped that starts at the node found by lowerBound.
greatestUnmappedFromLowerBound(m, upperLimit) ==
    GreatestUnmappedFrom(m, upperLimit, lowerBound(m, upperLimit))

greatestUnmapped(m, upperLimit) ==
    GreatestUnmappedFrom(m, upperLimit, findPrior(m, upperLimit))

----------------------------------------------------------------------------
(* IntervalMap : mutators.                                                 *)

clear(m) == <<>>

PolicyNotCalled(calls, op, interval, value, splitPoint) == calls

\* A call of policy_.split or policy_.truncate, added to the calls made on
\* the policy so far.
PolicyCalled(calls, op, interval, value, splitPoint) ==
    Append(calls, [op |-> op, interval |-> interval, value |-> value,
                   splitPoint |-> splitPoint])

\* The loop of erase: st.iter is the loop iterator, st.eraseBegin the first
\* node to remove (End(m) while unset), st.insertions the remnants to put
\* back, st.ok whether every ASSERT_require of the loop held, st.calls the
\* calls made on the policy.
RECURSIVE EraseLoop(_, _, _)
EraseLoop(m, erasure, st) ==
    IF st.iter = End(m) \/ isLeftOf(erasure, m[st.iter].key) THEN st
    ELSE
    LET foundInterval == m[st.iter].key
        v == m[st.iter].value
        unset == st.eraseBegin = End(m)
        begin == IF unset THEN st.iter ELSE st.eraseBegin
        next == st.iter + 1
    IN
    IF IntervalIsContaining(erasure, foundInterval) THEN
        EraseLoop(m, erasure, [st EXCEPT !.iter = next, !.eraseBegin = begin])
    ELSE IF erasure.lo > foundInterval.lo /\ erasure.hi < foundInterval.hi THEN
        LET rt == splitInterval(foundInterval, Wrap(erasure.hi + 1))
            sp == split(foundInterval, v, rt.second.lo)
            lt == splitInterval(rt.first, erasure.lo)
            lv == truncate(rt.first, sp.left, erasure.lo)
        IN EraseLoop(m, erasure,
                     [iter |-> next, eraseBegin |-> st.iter, ok |-> st.ok /\ unset,
                      insertions |-> MapInsert(MapInsert(st.insertions, rt.second, sp.right),
                                               lt.first, lv),
                      calls |-> PolicyCalled(PolicyCalled(st.calls, "split", foundInterval,
                                                          v, rt.second.lo),
                                             "truncate", rt.first, sp.left, erasure.lo)])
    ELSE IF erasure.lo > foundInterval.lo THEN
        LET halves == splitInterval(foundInterval, erasure.lo)
            lv == truncate(foundInterval, v, erasure.lo)
        IN EraseLoop(m, erasure,
                     [iter |-> next, eraseBegin |-> st.iter, ok |-> st.ok /\ unset,
                      insertions |-> MapInsert(st.insertions, halves.first, lv),
                      calls |-> PolicyCalled(st.calls, "truncate", foundInterval, v,
                                             erasure.lo)])
    ELSE IF erasure.hi < foundInterval.hi THEN
        LET halves == splitInterval(foundInterval, Wrap(erasure.hi + 1))
            sp == split(foundInterval, v, halves.second.lo)
        IN EraseLoop(m, erasure,
                     [iter |-> next, eraseBegin |-> begin, ok |-> st.ok,
                      insertions |-> MapInsert(st.insertions, halves.second, sp.right),
                      calls |-> PolicyCalled(st.calls, "split", foundInterval, v,
                                             halves.second.lo)])
    ELSE EraseLoop(m, erasure, [st EXCEPT !.iter = next])

eraseScan(m, erasure) ==
    EraseLoop(m, erasure,
              [iter |-> lowerBound(m, erasure.lo), eraseBegin |-> End(m),
               insertions |-> <<>>, ok |-> TRUE, calls |-> <<>>])

\* The calls erase makes on its policy, in order.
erasePolicyCalls(m, erasure) ==
    IF isEmpty(erasure) THEN <<>> ELSE eraseScan(m, erasure).calls

\* erase that never puts the remnants back.
eraseDropRemnants(m, erasure) ==
    IF isEmpty(erasure) THEN m
    ELSE
    LET st == eraseScan(m, erasure)
    IN IF st.eraseBegin # End(m)
       THEN MapEraseAtMultiple(m, st.eraseBegin, st.iter)
       ELSE m

\* erase that puts the remnants back without removing the affected nodes.
eraseKeepNodes(m, erasure) ==
    IF isEmpty(erasure) THEN m
    ELSE MapInsertMultiple(m, eraseScan(m, erasure).insertions)

erase(m, erasure) ==
    IF isEmpty(erasure) THEN m
    ELSE
    LET st == eraseScan(m, erasure)
        erased == IF st.eraseBegin # End(m)
                  THEN MapEraseAtMultiple(m, st.eraseBegin, st.iter)
                  ELSE m
    IN MapInsertMultiple(erased, st.insertions)

\* Whether an ASSERT_require of erase fails on this call.
eraseAsserts(m, erasure) == ~isEmpty(erasure) /\ ~eraseScan(m, erasure).ok

\* Left merge that takes the fused key as the hull up to key.least().
mergeLeftWrongEnd(c) ==
    IF Wrap(c.key.lo - 1) < c.key.lo THEN
        LET left == find(c.m, Wrap(c.key.lo - 1)) IN
        IF /\ left # End(c.m)
           /\ Wrap(c.m[left].key.hi + 1) = c.key.lo
           /\ merge(c.m[left].key, c.m[left].value, c.key, c.value)
        THEN [m |-> MapEraseAt(c.m, left),
              key |-> Hull(c.m[left].key.lo, c.key.lo),
              value |-> c.m[left].value]
        ELSE c
    ELSE c

\* insert that never merges with the left-adjoining node.
noMergeLeft(c) == c

\* insert, after the makeHole step: merge with the left-adjoining node.
mergeLeft(c) ==
    IF Wrap(c.key.lo - 1) < c.key.lo THEN
        LET left == find(c.m, Wrap(c.key.lo - 1)) IN
        IF /\ left # End(c.m)
           /\ Wrap(c.m[left].key.hi + 1) = c.key.lo
           /\ merge(c.m[left].key, c.m[left].value, c.key, c.value)
        THEN [m |-> MapEraseAt(c.m, left),
              key |-> Hull(c.m[left].key.lo, c.key.hi),
              value |-> c.m[left].value]
        ELSE c
    ELSE c

\* insert that never merges with the right-adjoining node.
noMergeRight(c) == c

\* insert: merge with the right-adjoining node.
mergeRight(c) ==
    IF Wrap(c.key.hi + 1) > c.key.hi THEN
        LET right == find(c.m, Wrap(c.key.hi + 1)) IN
        IF /\ right # End(c.m)
           /\ Wrap(c.key.hi + 1) = c.m[right].key.lo
           /\ merge(c.key, c.value, c.m[right].key, c.m[right].value)
        THEN [m |-> MapEraseAt(c.m, right),
              key |-> Hull(c.key.lo, c.m[right].key.hi),
              value |-> c.value]
        ELSE c
    ELSE c

insertMerged(m, key, value) ==
    LET c == mergeRight(mergeLeft([m |-> m, key |-> key, value |-> value]))
    IN MapInsert(c.m, c.key, c.value)

\* insert that neither makes the hole nor tests for an overlap.
insertNoHole(m, key, value, makeHole) ==
    IF isEmpty(key) THEN m ELSE insertMerged(m, key, value)

\* insert that takes an empty interval for a key like any other.
insertEmptyToo(m, key, value, makeHole) ==
    IF makeHole THEN insertMerged(erase(m, key), key, value)
    ELSE LET found == lowerBound(m, key.lo) IN
         IF found # End(m) /\ IntervalIsOverlapping(key, m[found].key) THEN m
         ELSE insertMerged(m, key, value)

\* insert that, without makeHole, looks for a node at key.least() only.
insertTestsLeastOnly(m, key, value, makeHole) ==
    IF isEmpty(key) THEN m
    ELSE IF makeHole THEN insertMerged(erase(m, key), key, value)
    ELSE IF find(m, key.lo) # End(m) THEN m
    ELSE insertMerged(m, key, value)

\* insert with the makeHole test inverted.
insertInverted(m, key, value, makeHole) ==
    IF isEmpty(key) THEN m
    ELSE IF ~makeHole THEN insertMerged(erase(m, key), key, value)
    ELSE LET found == lowerBound(m, key.lo) IN
         IF found # End(m) /\ IntervalIsOverlapping(key, m[found].key) THEN m
         ELSE insertMerged(m, key, value)

insert(m, key, value, makeHole) ==
    IF isEmpty(key) THEN m
    ELSE IF makeHole THEN insertMerged(erase(m, key), key, value)
    ELSE LET found == lowerBound(m, key.lo) IN
         IF found # End(m) /\ IntervalIsOverlapping(key, m[found].key) THEN m
         ELSE insertMerged(m, key, value)

RECURSIVE insertMultiple(_, _, _)
insertMultiple(m, other, makeHole) ==
    IF other = <<>> THEN m
    ELSE insertMultiple(insert(m, Head(other).key, Head(other).value, makeHole),
                        Tail(other), makeHole)

RECURSIVE eraseMultiple(_, _)
eraseMultiple(m, other) ==
    IF other = <<>> THEN m
    ELSE eraseMultiple(erase(m, Head(other).key), Tail(other))

\* Whether an ASSERT_require fails while the nodes of other are erased.
RECURSIVE eraseMultipleAsserts(_, _)
eraseMultipleAsserts(m, other) ==
    IF other = <<>> THEN FALSE
    ELSE \/ eraseAsserts(m, Head(other).key)
         \/ eraseMultipleAsserts(erase(m, Head(other).key), Tail(other))

----------------------------------------------------------------------------
(* The state machine: one IntervalMap object and its caller.  A call runs  *)
(* the whole method; the caller then takes the result and is ready for the *)
(* next call.                                                              *)

VARIABLES
    map_,       \* IntervalMap::map_, the nodes in key order
    call,       \* the call that has just run (NoCall while the caller is ready)
    before,     \* map_ as it was when that call was made
    result,     \* how the call ended: "void", or "abort" for a failed ASSERT
    policy,     \* a SymbolicSemantics Policy and the name_counter of its process
    twin,       \* a second such process, given the same calls, and its result
    trace       \* the calls made on the policy so far, with their results

vars == <<map_, call, before, result, policy, twin, trace>>

\* The programs that only use an IntervalMap construct no Policy.
NoPolicy == policy = Nothing /\ twin = Nothing /\ trace = <<>>

PolicyIdle == UNCHANGED <<policy, twin, trace>>

\* The keys of the nodes of the other container handed to insertMultiple
\* and eraseMultiple.
OtherKeys == {Hull(1, 2), Hull(3, ScalarMax - 1)}

\* Other containers: every IntervalMap built by two inserts of such keys.
OtherMaps ==
    {insert(insert(<<>>, k1, v1, TRUE), k2, v2, TRUE) :
        <<k1, k2>> \in OtherKeys \X OtherKeys, <<v1, v2>> \in Values \X Values}

Call(op, key, value, makeHole, other) ==
    [op |-> op, key |-> key, value |-> value, makeHole |-> makeHole, other |-> other]

NoCall == Call("none", EmptyInterval, Nothing, FALSE, <<>>)

Ready == call = NoCall

Ran(c, m, r) ==
    /\ call' = c
    /\ before' = map_
    /\ map_' = m
    /\ result' = r
    /\ PolicyIdle

Outcome(asserted) == IF asserted THEN "abort" ELSE "void"

Init ==
    /\ map_ = <<>>
    /\ call = NoCall
    /\ before = <<>>
    /\ result = Nothing
    /\ NoPolicy

Insert ==
    /\ Ready
    /\ \E key \in Intervals, value \in Values, makeHole \in BOOLEAN :
        Ran(Call("insert", key, value, makeHole, <<>>),
            insert(map_, key, value, makeHole),
            Outcome(makeHole /\ eraseAsserts(map_, key)))

Erase ==
    /\ Ready
    /\ \E erasure \in Intervals :
        Ran(Call("erase", erasure, Nothing, FALSE, <<>>),
            erase(map_, erasure),
            Outcome(eraseAsserts(map_, erasure)))

Clear ==
    /\ Ready
    /\ Ran(Call("clear", EmptyInterval, Nothing, FALSE, <<>>), clear(map_), "void")

InsertMultiple ==
    /\ Ready
    /\ \E other \in OtherMaps, makeHole \in BOOLEAN :
        Ran(Call("insertMultiple", EmptyInterval, Nothing, makeHole, other),
            insertMultiple(map_, other, makeHole),
            Outcome(makeHole /\ eraseMultipleAsserts(map_, other)))

EraseMultiple ==
    /\ Ready
    /\ \E other \in OtherMaps :
        Ran(Call("eraseMultiple", EmptyInterval, Nothing, FALSE, other),
            eraseMultiple(map_, other),
            Outcome(eraseMultipleAsserts(map_, other)))

\* The caller takes the result of the call.
Return ==
    /\ ~Ready
    /\ result # "abort"
    /\ call' = NoCall
    /\ before' = map_
    /\ result' = Nothing
    /\ UNCHANGED map_
    /\ PolicyIdle

Next == Insert \/ Erase \/ Clear \/ InsertMultiple \/ EraseMultiple \/ Return

Spec == Init /\ [][Next]_vars

----------------------------------------------------------------------------
(* The const methods, called on every map the mutators can build.  The map *)
(* is drawn from the maps that inserts build; a call leaves it unchanged   *)
(* and the caller takes the result.                                        *)

\* The maps that inserts of single scalars build: from each map built with
\* the scalars below s, the maps that leave s unmapped or insert it with a
\* value.
RECURSIVE MapsFrom(_, _)
MapsFrom(maps, s) ==
    IF s > ScalarMax THEN maps
    ELSE MapsFrom(maps \cup {insert(built, Singleton(s), v, TRUE) :
                                 built \in maps, v \in Values},
                  s + 1)

QueryMaps == MapsFrom({<<>>}, 0)

\* A call of a const method: arg is its scalar, size or interval argument,
\* start its iterator argument.
Query(op, arg, start) == [op |-> op, arg |-> arg, start |-> start]

Aborted == [kind |-> "abort"]

\* The call leaves map_ as it is and returns r.
Answered(c, r) ==
    /\ call' = c
    /\ result' = r
    /\ UNCHANGED <<map_, before>>
    /\ PolicyIdle

QueryInit ==
    /\ map_ \in QueryMaps
    /\ call = NoCall
    /\ before = map_
    /\ result = NothingOf
    /\ NoPolicy

\* The iterators a caller can hold: every node and the end iterator.
Iterators(m) == 1 .. End(m)

BestFit ==
    /\ Ready
    /\ \E size_ \in Scalars, start \in Iterators(map_) :
        Answered(Query("bestFit", size_, start), OptionalOf(bestFit(map_, size_, start)))

FirstFit ==
    /\ Ready
    /\ \E size_ \in Scalars, start \in Iterators(map_) :
        Answered(Query("firstFit", size_, start), OptionalOf(firstFit(map_, size_, start)))

Contains ==
    /\ Ready
    /\ \E key \in Intervals :
        Answered(Query("contains", key, End(map_)),
                 IF containsAsserts(map_, key) THEN Aborted
                 ELSE OptionalOf(contains(map_, key)))

OperatorSubscript ==
    /\ Ready
    /\ \E scalar \in Scalars :
        Answered(Query("operator[]", scalar, End(map_)), operatorSubscript(map_, scalar))

\* least() and greatest() : ASSERT_forbid(isEmpty()) halts the program; were
\* the assertion compiled out, the read of the first or last key of an empty
\* map would yield any scalar.
Least ==
    /\ Ready
    /\ \E r \in (IF isEmptyMap(map_)
                 THEN {Aborted} \cup {OptionalOf(s) : s \in Scalars}
                 ELSE {OptionalOf(least(map_))}) :
        Answered(Query("least", Nothing, End(map_)), r)

Greatest ==
    /\ Ready
    /\ \E r \in (IF isEmptyMap(map_)
                 THEN {Aborted} \cup {OptionalOf(s) : s \in Scalars}
                 ELSE {OptionalOf(greatest(map_))}) :
        Answered(Query("greatest", Nothing, End(map_)), r)

HullOf ==
    /\ Ready
    /\ Answered(Query("hull", Nothing, End(map_)), OptionalOf(hull(map_)))

Size ==
    /\ Ready
    /\ Answered(Query("size", Nothing, End(map_)), OptionalOf(size(map_)))

LeastUnmapped ==
    /\ Ready
    /\ \E lowerLimit \in Scalars :
        Answered(Query("leastUnmapped", lowerLimit, End(map_)),
                 leastUnmapped(map_, lowerLimit))

GreatestUnmapped ==
    /\ Ready
    /\ \E upperLimit \in Scalars :
        Answered(Query("greatestUnmapped", upperLimit, End(map_)),
                 greatestUnmapped(map_, upperLimit))

\* The caller takes the result of the const method, unless it halted.
FindFirstOverlap ==
    /\ Ready
    /\ \E other \in OtherMaps :
        \E thisIter \in Iterators(map_), otherIter \in Iterators(other) :
            Answered(Query("findFirstOverlap", other, IteratorPair(thisIter, otherIter)),
                     OptionalOf(findFirstOverlapWith(map_, thisIter, other, otherIter)))

QueryReturn ==
    /\ ~Ready
    /\ result # Aborted
    /\ call' = NoCall
    /\ result' = NothingOf
    /\ UNCHANGED <<map_, before>>
    /\ PolicyIdle

QueryNext ==
    \/ BestFit \/ FirstFit \/ Contains \/ OperatorSubscript \/ Least \/ Greatest
    \/ HullOf \/ Size \/ LeastUnmapped \/ GreatestUnmapped \/ FindFirstOverlap
    \/ QueryReturn

QuerySpec == QueryInit /\ [][QueryNext]_vars

----------------------------------------------------------------------------
(* A caller that only inserts with the default makeHole and erases.        *)

InsertDefault ==
    /\ Ready
    /\ \E key \in Intervals, value \in Values :
        Ran(Call("insert", key, value, TRUE, <<>>),
            insert(map_, key, value, TRUE),
            Outcome(eraseAsserts(map_, key)))

InsertEraseNext == InsertDefault \/ Erase \/ Return

InsertEraseSpec == Init /\ [][InsertEraseNext]_vars

----------------------------------------------------------------------------
(* erase on a map whose policy reports the calls made on it: the result of *)
(* a call is the list of those calls.                                      *)

Erased(c, m, r) ==
    /\ call' = c
    /\ before' = map_
    /\ map_' = m
    /\ result' = r
    /\ PolicyIdle

EraseWithPolicy ==
    /\ Ready
    /\ \E erasure \in Intervals :
        Erased(Query("erase", erasure, End(map_)),
               erase(map_, erasure),
               IF eraseAsserts(map_, erasure) THEN Aborted
               ELSE OptionalOf(erasePolicyCalls(map_, erasure)))

EraseReturn ==
    /\ ~Ready
    /\ result # Aborted
    /\ call' = NoCall
    /\ result' = NothingOf
    /\ before' = map_
    /\ UNCHANGED map_
    /\ PolicyIdle

ErasePolicyNext == EraseWithPolicy \/ EraseReturn

ErasePolicySpec == QueryInit /\ [][ErasePolicyNext]_vars

----------------------------------------------------------------------------
(* bestFit on the maps of the best-fit example, [0,9], [20,29], [40,79],   *)
(* whose scalars need a wider type than the one above.                     *)

\* The number of values of an 8-bit unsigned Interval::Value, the narrowest
\* type the caveat of bestFit names; it holds every size of the example.
WideModulus == 256

DocFitKeys == <<Hull(0, 9), Hull(20, 29), Hull(40, 79)>>

\* The maps holding some of the example's intervals, with every choice of
\* values: no two of the intervals abut, so none of them merge.
DocFitMaps ==
    {SelectSeq([n \in 1 .. 3 |-> Node(DocFitKeys[n], f[n])], LAMBDA node : node.value # Nothing) :
        f \in [1 .. 3 -> Values \cup {Nothing}]}

DocFitSizes == {1, 10, 11, 40, 41}

DocFitInit ==
    /\ map_ \in DocFitMaps
    /\ call = NoCall
    /\ before = map_
    /\ result = NothingOf
    /\ NoPolicy

DocBestFit ==
    /\ Ready
    /\ \E size_ \in DocFitSizes, start \in Iterators(map_) :
        Answered(Query("bestFit", size_, start),
                 OptionalOf(BestFitFrom(map_, size_, start, End(map_), WideModulus)))

DocFitNext == DocBestFit \/ QueryReturn

DocFitSpec == DocFitInit /\ [][DocFitNext]_vars


----------------------------------------------------------------------------
(* SymbolicSemantics : expression trees and values.                        *)

\* GenMask<uint64_t, nbits>::value & n.  Values of the model stay below
\* 2^31, so a mask of 31 bits or more leaves them as they are.
GenMask(nbits, n) == IF nbits >= 31 THEN n ELSE n % (2 ^ nbits)

\* LeafNode::create_integer: a known leaf; unused high bits are zero.
create_integer(nbits, n) ==
    [kind |-> "integer", nbits |-> nbits, n |-> GenMask(nbits, n),
     op |-> "none", children |-> <<>>]

\* The leaf LeafNode::create_variable makes when name_counter is name; the
\* caller advances name_counter.
create_variable(nbits, name) ==
    [kind |-> "variable", nbits |-> nbits, n |-> name,
     op |-> "none", children |-> <<>>]

InternalNode(nbits, op, children) ==
    [kind |-> "internal", nbits |-> nbits, n |-> 0, op |-> op, children |-> children]

is_known(expr) == expr.kind = "integer"

\* TreeNode::equal_to and its overrides: same variant and width, leaves with
\* the same value or the same name, internal nodes with the same operator
\* and pairwise equal children.
RECURSIVE equal_to(_, _)
equal_to(a, b) ==
    /\ a.nbits = b.nbits
    /\ a.kind = b.kind
    /\ IF a.kind = "internal"
       THEN /\ a.op = b.op
            /\ Len(a.children) = Len(b.children)
            /\ \A i \in 1 .. Len(a.children) : equal_to(a.children[i], b.children[i])
       ELSE a.n = b.n

\* Policy::unsignedExtend<FromLen, ToLen>.
unsignedExtend(FromLen, ToLen, a) ==
    IF is_known(a) THEN create_integer(ToLen, a.n)
    ELSE IF FromLen = ToLen THEN a
    ELSE IF FromLen > ToLen
    THEN InternalNode(ToLen, "OP_EXTRACT",
                      <<create_integer(32, 0), create_integer(32, ToLen), a>>)
    ELSE InternalNode(ToLen, "OP_UEXTEND", <<create_integer(32, ToLen), a>>)

----------------------------------------------------------------------------
(* SymbolicSemantics : the arithmetic primitives of Policy.  The template  *)
(* widths are leading parameters.                                          *)

\* add that always builds a node.
addWithoutFolding(nBits, a, b) == InternalNode(nBits, "OP_ADD", <<a, b>>)

\* Policy::add<Len>.
add(nBits, a, b) ==
    IF is_known(a) /\ is_known(b) THEN create_integer(nBits, a.n + b.n)
    ELSE IF is_known(a) /\ a.n = 0 THEN b
    ELSE IF ~is_known(a) /\ is_known(b) /\ b.n = 0 THEN a
    ELSE InternalNode(nBits, "OP_ADD", <<a, b>>)

\* xor_ that returns its first operand.
xor_OfFirst(nBits, a, b) == a

\* Policy::xor_<Len>.
xor_(nBits, a, b) == InternalNode(nBits, "OP_BV_XOR", <<a, b>>)

\* Policy::extract<BeginAt, EndAt, Len>.
extract(BeginAt, EndAt, nBits, a) ==
    IF BeginAt = 0 THEN unsignedExtend(nBits, EndAt - BeginAt, a)
    ELSE IF is_known(a) THEN create_integer(EndAt - BeginAt, a.n)
    ELSE InternalNode(EndAt - BeginAt, "OP_EXTRACT",
                      <<create_integer(32, BeginAt), create_integer(32, EndAt), a>>)

\* Policy::concat<Len1, Len2>.
concat(Len1, Len2, a, b) == InternalNode(Len1 + Len2, "OP_CONCAT", <<a, b>>)

\* Policy::addWithCarries<Len>: the returned sum and the carry_out argument.
addWithCarries(nBits, a, b, c) ==
    LET aa == unsignedExtend(nBits, nBits + 1, a)
        bb == unsignedExtend(nBits, nBits + 1, b)
        cc == unsignedExtend(1, nBits + 1, c)
        sumco == add(nBits + 1, aa, add(nBits + 1, bb, cc))
    IN [carry_out |-> extract(1, nBits + 1, nBits + 1,
                              xor_(nBits + 1, aa, xor_(nBits + 1, bb, sumco))),
        sum |-> add(nBits, a, add(nBits, b, unsignedExtend(1, nBits, c)))]

\* The bitwise exclusive or of two naturals.
RECURSIVE BitXor(_, _)
BitXor(x, y) ==
    IF x = 0 /\ y = 0 THEN 0
    ELSE ((x + y) % 2) + 2 * BitXor(x \div 2, y \div 2)

\* The value an expression denotes when the variable named n has the value
\* env[n], by the meaning the Operator enumeration gives to each operator.
RECURSIVE Eval(_, _)
Eval(e, env) ==
    LET child(i) == Eval(e.children[i], env) IN
    IF e.kind = "integer" THEN e.n
    ELSE IF e.kind = "variable" THEN env[e.n] % (2 ^ e.nbits)
    ELSE IF e.op = "OP_ADD" THEN (child(1) + child(2)) % (2 ^ e.nbits)
    ELSE IF e.op = "OP_BV_XOR" THEN BitXor(child(1), child(2))
    ELSE IF e.op = "OP_CONCAT" THEN child(1) * (2 ^ e.children[2].nbits) + child(2)
    ELSE IF e.op = "OP_EXTRACT"
    THEN (child(3) \div (2 ^ child(1))) % (2 ^ (child(2) - child(1)))
    ELSE IF e.op = "OP_UEXTEND" THEN child(2)
    ELSE 0

----------------------------------------------------------------------------
(* SymbolicSemantics : memory cells and machine states.                    *)

MemoryCell(address, data, nbytes) ==
    [address |-> address, data |-> data, nbytes |-> nbytes,
     clobbered |-> FALSE, written |-> FALSE]

\* MemoryCell::must_alias: the same address expression and the same size.
must_alias(cell, other) ==
    /\ equal_to(cell.address, other.address)
    /\ cell.nbytes = other.nbytes

\* Two cells at known addresses whose byte ranges do not meet.
KnownDisjoint(cell, other) ==
    /\ is_known(cell.address)
    /\ is_known(other.address)
    /\ \/ cell.address.n + cell.nbytes <= other.address.n
       \/ other.address.n + other.nbytes <= cell.address.n

\* MemoryCell::may_alias: every pair of cells not known to be disjoint.
may_alias(cell, other) == must_alias(cell, other) \/ ~KnownDisjoint(cell, other)

n_gprs == 8
n_segregs == 6
n_flags == 16

\* The unknowns one State() allocates: ip, gpr[], segreg[] and flag[].
StateNames == 1 + n_gprs + n_segregs + n_flags

\* State::State() when name_counter is name: the members are default
\* constructed in declaration order, each one a new variable.
State(name) ==
    [ip |-> create_variable(32, name),
     gpr |-> [r \in 0 .. n_gprs - 1 |-> create_variable(32, name + 1 + r)],
     segreg |-> [sr \in 0 .. n_segregs - 1 |-> create_variable(16, name + 1 + n_gprs + sr)],
     flag |-> [f \in 0 .. n_flags - 1 |->
                  create_variable(1, name + 1 + n_gprs + n_segregs + f)],
     mem |-> <<>>]

NULL == [kind |-> "null"]

PolicyKeepingOrig(name) ==
    [name_counter |-> name + 2 * StateNames,
     orig_state |-> State(name),
     cur_state |-> State(name + StateNames),
     cur_insn |-> NULL,
     p_discard_popped_memory |-> FALSE,
     ninsns |-> 0]

\* Policy::Policy() in a process whose name_counter is name: orig_state and
\* cur_state are default constructed in that order, and the body copies
\* cur_state over orig_state.
Policy(name) ==
    LET cur == State(name + StateNames) IN
    [name_counter |-> name + 2 * StateNames,
     orig_state |-> cur,
     cur_state |-> cur,
     cur_insn |-> NULL,
     p_discard_popped_memory |-> FALSE,
     ninsns |-> 0]

----------------------------------------------------------------------------
(* SymbolicSemantics : the primitives of Policy.  Each takes the policy p  *)
(* (with the name_counter of its process) and returns the policy after the *)
(* call and what the call returned.                                        *)

Void == [kind |-> "void"]

Returned(p, r) == [p |-> p, result |-> r]

\* A failed ROSE_ASSERT ends the process.
Abort(p) == Returned(p, Aborted)

\* The first loop of mem_read from cell mi on: the first cell new_cell must
\* alias, and whether a written cell passed before it may alias new_cell.
RECURSIVE MemReadScan(_, _, _, _)
MemReadScan(mem, new_cell, mi, aliased) ==
    IF mi > Len(mem) THEN [hit |-> 0, aliased |-> aliased]
    ELSE IF must_alias(new_cell, mem[mi]) THEN [hit |-> mi, aliased |-> aliased]
    ELSE MemReadScan(mem, new_cell, mi + 1,
                     aliased \/ (may_alias(new_cell, mem[mi]) /\ mem[mi].written))

\* The loop of mem_read over orig_state.mem: the first cell new_cell must
\* alias, 0 if there is none.
RECURSIVE OrigScan(_, _, _)
OrigScan(mem, new_cell, mi) ==
    IF mi > Len(mem) THEN 0
    ELSE IF must_alias(new_cell, mem[mi]) THEN mi
    ELSE OrigScan(mem, new_cell, mi + 1)

mem_readWithoutCaching(p, state, nBits, addr) ==
    LET new_cell == MemoryCell(addr, create_variable(32, p.name_counter), nBits \div 8)
        q == [p EXCEPT !.name_counter = @ + 1]
        scan == MemReadScan(q[state].mem, new_cell, 1, FALSE)
    IN IF scan.hit # 0 /\ ~q[state].mem[scan.hit].clobbered
       THEN Returned(q, OptionalOf(unsignedExtend(32, nBits, q[state].mem[scan.hit].data)))
       ELSE Returned(q, OptionalOf(unsignedExtend(32, nBits, new_cell.data)))

mem_readReusingClobbered(p, state, nBits, addr) ==
    LET new_cell == MemoryCell(addr, create_variable(32, p.name_counter), nBits \div 8)
        q == [p EXCEPT !.name_counter = @ + 1]
        scan == MemReadScan(q[state].mem, new_cell, 1, FALSE)
    IN IF scan.hit # 0
       THEN Returned(q, OptionalOf(unsignedExtend(32, nBits, q[state].mem[scan.hit].data)))
       ELSE Returned([q EXCEPT ![state].mem = Append(@, new_cell)],
                     OptionalOf(unsignedExtend(32, nBits, new_cell.data)))

\* Policy::mem_read<nBits>(state, addr); state names the member of the
\* policy, "cur_state" or "orig_state", the reference is bound to.
mem_read(p, state, nBits, addr) ==
    LET new_cell == MemoryCell(addr, create_variable(32, p.name_counter), nBits \div 8)
        q == [p EXCEPT !.name_counter = @ + 1]
        scan == MemReadScan(q[state].mem, new_cell, 1, FALSE)
        found == OrigScan(q.orig_state.mem, new_cell, 1)
    IN IF scan.hit # 0
       THEN IF q[state].mem[scan.hit].clobbered
            THEN Returned([q EXCEPT ![state].mem[scan.hit].clobbered = FALSE,
                                    ![state].mem[scan.hit].data = new_cell.data],
                          OptionalOf(unsignedExtend(32, nBits, new_cell.data)))
            ELSE Returned(q, OptionalOf(unsignedExtend(32, nBits, q[state].mem[scan.hit].data)))
       ELSE IF ~scan.aliased /\ state # "orig_state"
       THEN IF found # 0
            THEN IF q.orig_state.mem[found].clobbered \/ q.orig_state.mem[found].written
                 THEN Abort(q)
                 ELSE Returned([q EXCEPT ![state].mem = Append(@, q.orig_state.mem[found])],
                               OptionalOf(unsignedExtend(32, nBits,
                                                         q.orig_state.mem[found].data)))
            ELSE Returned([q EXCEPT !.orig_state.mem = Append(@, new_cell),
                                    ![state].mem = Append(@, new_cell)],
                          OptionalOf(unsignedExtend(32, nBits, new_cell.data)))
       ELSE Returned([q EXCEPT ![state].mem = Append(@, new_cell)],
                     OptionalOf(unsignedExtend(32, nBits, new_cell.data)))

\* X86GeneralPurposeRegister: eax, ecx, edx and esp.
x86_gpr_ax == 0
x86_gpr_cx == 1
x86_gpr_dx == 2
x86_gpr_sp == 4

memory_reference_typeByStackPointer(state, addr) ==
    IF equal_to(addr, state.gpr[x86_gpr_sp]) THEN "MRT_STACK_PTR" ELSE "MRT_OTHER_PTR"

\* Policy::memory_reference_type: the comparison with the stack pointer is
\* compiled out.
memory_reference_type(state, addr) == "MRT_OTHER_PTR"

mem_writeWithoutClobber(p, state, nBits, addr, data) ==
    LET new_cell == [MemoryCell(addr, unsignedExtend(nBits, 32, data), nBits \div 8)
                        EXCEPT !.written = TRUE]
        mem == p[state].mem
        saved == \E mi \in 1 .. Len(mem) : must_alias(new_cell, mem[mi])
        stored == [mi \in 1 .. Len(mem) |->
                      IF must_alias(new_cell, mem[mi]) THEN new_cell ELSE mem[mi]]
    IN Returned([p EXCEPT ![state].mem = IF saved THEN stored ELSE Append(stored, new_cell)],
                Void)

mem_writeAppending(p, state, nBits, addr, data) ==
    LET new_cell == [MemoryCell(addr, unsignedExtend(nBits, 32, data), nBits \div 8)
                        EXCEPT !.written = TRUE]
    IN Returned([p EXCEPT ![state].mem = Append(@, new_cell)], Void)

mem_writeIntoOrig(p, state, nBits, addr, data) ==
    LET new_cell == [MemoryCell(addr, unsignedExtend(nBits, 32, data), nBits \div 8)
                        EXCEPT !.written = TRUE]
    IN Returned([p EXCEPT ![state].mem = Append(@, new_cell),
                          !.orig_state.mem = Append(@, new_cell)],
                Void)

\* Policy::mem_write<nBits>(state, addr, data).
mem_write(p, state, nBits, addr, data) ==
    LET new_cell == [MemoryCell(addr, unsignedExtend(nBits, 32, data), nBits \div 8)
                        EXCEPT !.written = TRUE]
        new_mrt == memory_reference_type(p[state], addr)
        mem == p[state].mem
        saved == \E mi \in 1 .. Len(mem) : must_alias(new_cell, mem[mi])
        stored == [mi \in 1 .. Len(mem) |->
                      IF must_alias(new_cell, mem[mi]) THEN new_cell
                      ELSE IF /\ p.p_discard_popped_memory
                              /\ new_mrt # memory_reference_type(p[state], mem[mi].address)
                      THEN mem[mi]
                      ELSE IF may_alias(new_cell, mem[mi])
                      THEN [mem[mi] EXCEPT !.clobbered = TRUE]
                      ELSE mem[mi]]
    IN IF state = "orig_state" THEN Abort(p)
       ELSE Returned([p EXCEPT ![state].mem =
                                   IF saved THEN stored ELSE Append(stored, new_cell)],
                     Void)

\* An instruction, as far as the policy looks at it: SgAsmInstruction with
\* its get_address().
Instruction(address) == [kind |-> "instruction", address |-> address]

startInstructionAlwaysSaving(p, insn) ==
    LET started == [p EXCEPT !.cur_state.ip = create_integer(32, insn.address)] IN
    Returned([started EXCEPT !.orig_state = started.cur_state,
                             !.ninsns = @ + 1,
                             !.cur_insn = insn],
             Void)

\* Policy::startInstruction.
startInstruction(p, insn) ==
    LET started == [p EXCEPT !.cur_state.ip = create_integer(32, insn.address)] IN
    Returned([started EXCEPT !.orig_state = IF p.ninsns = 0 THEN started.cur_state ELSE @,
                             !.ninsns = @ + 1,
                             !.cur_insn = insn],
             Void)

\* State::discard_popped_memory: not implemented, the state stays.
discard_popped_memory(state) == state

\* Policy::finishInstruction.
finishInstruction(p) ==
    Returned([p EXCEPT !.cur_state = IF p.p_discard_popped_memory
                                     THEN discard_popped_memory(@) ELSE @,
                       !.cur_insn = NULL],
             Void)

set_discard_popped_memory(p, b) == Returned([p EXCEPT !.p_discard_popped_memory = b], Void)

\* Policy::undefined_: a new one-bit variable.
undefined_(p) ==
    Returned([p EXCEPT !.name_counter = @ + 1], OptionalOf(create_variable(1, p.name_counter)))

interruptKeepingRegisters(p, num) ==
    Returned([p EXCEPT !.cur_state.mem = <<>>], Void)

\* Policy::interrupt: cur_state = State().
interrupt(p, num) ==
    Returned([p EXCEPT !.cur_state = State(p.name_counter),
                       !.name_counter = @ + StateNames],
             Void)

readGPR(p, r) == Returned(p, OptionalOf(p.cur_state.gpr[r]))
writeGPR(p, r, value) == Returned([p EXCEPT !.cur_state.gpr[r] = value], Void)
readSegreg(p, sr) == Returned(p, OptionalOf(p.cur_state.segreg[sr]))
writeSegreg(p, sr, value) == Returned([p EXCEPT !.cur_state.segreg[sr] = value], Void)
readIP(p) == Returned(p, OptionalOf(p.cur_state.ip))
writeIP(p, value) == Returned([p EXCEPT !.cur_state.ip = value], Void)
readFlag(p, f) == Returned(p, OptionalOf(p.cur_state.flag[f]))
writeFlag(p, f, value) == Returned([p EXCEPT !.cur_state.flag[f] = value], Void)

readMemory(p, nBits, addr) == mem_read(p, "cur_state", nBits, addr)
writeMemory(p, nBits, addr, data) == mem_write(p, "cur_state", nBits, addr, data)

----------------------------------------------------------------------------
(* A caller driving a Policy through its primitives.  The twin is a second *)
(* process that constructs its own Policy, sets discardPoppedMemory the    *)
(* other way, and makes the same calls.                                    *)

\* The number of calls a run makes on its policy.
MaxCalls == 4

PolicyCall(op, nBits, addr, data) == [op |-> op, nBits |-> nBits, addr |-> addr, data |-> data]

\* Arguments that are no expressions: a register number, a flag value.
Register(r) == [kind |-> "register", n |-> r]
Bool(b) == [kind |-> "bool", b |-> b]

Twin(out) == [policy |-> out.p, result |-> out.result]

PolicyInit ==
    /\ map_ = <<>>
    /\ before = <<>>
    /\ call = NoCall
    /\ result = NothingOf
    /\ policy = Policy(0)
    /\ twin = Twin(Returned(set_discard_popped_memory(Policy(0), TRUE).p, NothingOf))
    /\ trace = <<>>

CanCall == Len(trace) < MaxCalls /\ result # Aborted

\* The call c was made on both policies; out and twinOut are what it did.
Applied(c, out, twinOut) ==
    /\ call' = c
    /\ result' = out.result
    /\ policy' = out.p
    /\ twin' = Twin(twinOut)
    /\ trace' = Append(trace, [call |-> c, result |-> out.result])
    /\ UNCHANGED <<map_, before>>

Widths == {8, 16, 32}

\* The addresses the caller reads and writes memory at: the constant
\* 0x1000 and whatever the stack pointer holds.
ConstantAddress == create_integer(32, 4096)
StackAddress == policy.cur_state.gpr[x86_gpr_sp]
Addresses == {ConstantAddress, StackAddress}

\* The data the caller writes to memory: a known constant of the width, or
\* an unknown of the width taken from the registers: the low byte of a
\* general-purpose register, a segment register, a general-purpose register.
KnownData(nBits) == create_integer(nBits, 57005)
UnknownData(nBits) ==
    IF nBits = 8 THEN unsignedExtend(32, 8, policy.cur_state.gpr[x86_gpr_ax])
    ELSE IF nBits = 16 THEN policy.cur_state.segreg[0]
    ELSE policy.cur_state.gpr[x86_gpr_ax]

\* The instruction the caller starts next: the instructions are four bytes
\* each, the first at 0x400.
NextInstruction == Instruction(1024 + 4 * policy.ninsns)

StartInstruction ==
    /\ CanCall
    /\ LET insn == NextInstruction IN
       Applied(PolicyCall("startInstruction", 0, insn, Void),
               startInstruction(policy, insn), startInstruction(twin.policy, insn))

FinishInstruction ==
    /\ CanCall
    /\ Applied(PolicyCall("finishInstruction", 0, Void, Void),
               finishInstruction(policy), finishInstruction(twin.policy))

Interrupt ==
    /\ CanCall
    /\ Applied(PolicyCall("interrupt", 0, Void, Void),
               interrupt(policy, 3), interrupt(twin.policy, 3))

SetDiscardPoppedMemory ==
    /\ CanCall
    /\ \E b \in BOOLEAN :
        Applied(PolicyCall("set_discard_popped_memory", 0, Void, Bool(b)),
                set_discard_popped_memory(policy, b),
                set_discard_popped_memory(twin.policy, ~b))

ReadMemory ==
    /\ CanCall
    /\ \E nBits \in Widths, addr \in Addresses :
        /\ addr = StackAddress => nBits = 32
        /\ Applied(PolicyCall("readMemory", nBits, addr, Void),
                   readMemory(policy, nBits, addr), readMemory(twin.policy, nBits, addr))

WriteMemory ==
    /\ CanCall
    /\ \E nBits \in Widths, addr \in Addresses :
        \E data \in {KnownData(nBits), UnknownData(nBits)} :
            /\ addr = StackAddress => nBits = 32 /\ data = KnownData(nBits)
            /\ Applied(PolicyCall("writeMemory", nBits, addr, data),
                       writeMemory(policy, nBits, addr, data),
                       writeMemory(twin.policy, nBits, addr, data))

MemoryNext ==
    \/ StartInstruction \/ FinishInstruction \/ Interrupt \/ SetDiscardPoppedMemory
    \/ ReadMemory \/ WriteMemory

MemorySpec == PolicyInit /\ [][MemoryNext]_vars

----------------------------------------------------------------------------
(* A caller that sets up and inspects registers, starts and finishes       *)
(* instructions, and reads and writes one word of memory.                  *)

Undefined_ ==
    /\ CanCall
    /\ Applied(PolicyCall("undefined_", 1, Void, Void),
               undefined_(policy), undefined_(twin.policy))

ReadGPR ==
    /\ CanCall
    /\ Applied(PolicyCall("readGPR", 32, Register(x86_gpr_sp), Void),
               readGPR(policy, x86_gpr_sp), readGPR(twin.policy, x86_gpr_sp))

WriteGPR ==
    /\ CanCall
    /\ LET value == create_integer(32, 8192) IN
       Applied(PolicyCall("writeGPR", 32, Register(x86_gpr_sp), value),
               writeGPR(policy, x86_gpr_sp, value), writeGPR(twin.policy, x86_gpr_sp, value))

ReadSegreg ==
    /\ CanCall
    /\ Applied(PolicyCall("readSegreg", 16, Register(0), Void),
               readSegreg(policy, 0), readSegreg(twin.policy, 0))

WriteSegreg ==
    /\ CanCall
    /\ LET value == create_integer(16, 35) IN
       Applied(PolicyCall("writeSegreg", 16, Register(0), value),
               writeSegreg(policy, 0, value), writeSegreg(twin.policy, 0, value))

ReadIP ==
    /\ CanCall
    /\ Applied(PolicyCall("readIP", 32, Void, Void), readIP(policy), readIP(twin.policy))

WriteIP ==
    /\ CanCall
    /\ LET value == create_integer(32, 2048) IN
       Applied(PolicyCall("writeIP", 32, Void, value),
               writeIP(policy, value), writeIP(twin.policy, value))

ReadFlag ==
    /\ CanCall
    /\ Applied(PolicyCall("readFlag", 1, Register(0), Void),
               readFlag(policy, 0), readFlag(twin.policy, 0))

WriteFlag ==
    /\ CanCall
    /\ LET value == create_integer(1, 1) IN
       Applied(PolicyCall("writeFlag", 1, Register(0), value),
               writeFlag(policy, 0, value), writeFlag(twin.policy, 0, value))

ReadMemoryWord ==
    /\ CanCall
    /\ Applied(PolicyCall("readMemory", 32, ConstantAddress, Void),
               readMemory(policy, 32, ConstantAddress),
               readMemory(twin.policy, 32, ConstantAddress))

WriteMemoryWord ==
    /\ CanCall
    /\ LET data == KnownData(32) IN
       Applied(PolicyCall("writeMemory", 32, ConstantAddress, data),
               writeMemory(policy, 32, ConstantAddress, data),
               writeMemory(twin.policy, 32, ConstantAddress, data))

PolicyNext ==
    \/ StartInstruction \/ FinishInstruction \/ Interrupt \/ Undefined_
    \/ ReadGPR \/ WriteGPR \/ ReadSegreg \/ WriteSegreg
    \/ ReadIP \/ WriteIP \/ ReadFlag \/ WriteFlag
    \/ ReadMemoryWord \/ WriteMemoryWord

PolicySpec == PolicyInit /\ [][PolicyNext]_vars

----------------------------------------------------------------------------
(* The example of MemoryCell's documentation: two reads at one address, a  *)
(* write at an unknown address, two more reads at the first address; the   *)
(* address may have been written before, as in the spec's scenario.        *)

\* The calls of the run so far that read memory.
ReadsSoFar == {i \in 1 .. Len(trace) : trace[i].call.op = "readMemory"}

\* The address of the example's reads: the constant of the scenario or
\* ds:[edx], the same in every call of a run.
ExampleAddresses ==
    IF trace = <<>> THEN {ConstantAddress, policy.cur_state.gpr[x86_gpr_dx]}
    ELSE {trace[1].call.addr}

ExampleWidths ==
    IF ReadsSoFar = {} THEN Widths ELSE {trace[i].call.nBits : i \in ReadsSoFar}

\* What the example writes: a constant, an unknown from the registers, or
\* the value the last read returned (eax after mov eax, ds:[edx]).
ExampleData(nBits) ==
    {KnownData(nBits), UnknownData(nBits)}
        \cup {trace[i].result.value : i \in {j \in ReadsSoFar : trace[j].call.nBits = nBits}}

\* The address was written before the example starts.
SeedMemory ==
    /\ trace = <<>>
    /\ \E nBits \in Widths, addr \in ExampleAddresses :
        LET data == KnownData(nBits) IN
        Applied(PolicyCall("writeMemory", nBits, addr, data),
                writeMemory(policy, nBits, addr, data),
                writeMemory(twin.policy, nBits, addr, data))

\* Instructions 1, 2, 4 and 5: mov eax, ds:[edx].
ExampleRead ==
    /\ result # Aborted
    /\ Cardinality(ReadsSoFar) < 4
    /\ Cardinality(ReadsSoFar) = 2 => trace[Len(trace)].call.op = "writeMemory"
    /\ \E nBits \in ExampleWidths, addr \in ExampleAddresses :
        Applied(PolicyCall("readMemory", nBits, addr, Void),
                readMemory(policy, nBits, addr), readMemory(twin.policy, nBits, addr))

\* Instruction 3: mov ds:[ecx], eax.
ExampleWrite ==
    /\ result # Aborted
    /\ Cardinality(ReadsSoFar) = 2
    /\ trace[Len(trace)].call.op = "readMemory"
    /\ \E nBits \in Widths :
        \E data \in ExampleData(nBits) :
            LET addr == policy.cur_state.gpr[x86_gpr_cx] IN
            Applied(PolicyCall("writeMemory", nBits, addr, data),
                    writeMemory(policy, nBits, addr, data),
                    writeMemory(twin.policy, nBits, addr, data))

ExampleNext == SeedMemory \/ ExampleRead \/ ExampleWrite

ExampleSpec == PolicyInit /\ [][ExampleNext]_vars

----------------------------------------------------------------------------
(* A caller of the arithmetic primitives: each call hands operands of one  *)
(* width to a primitive and takes the expression it returns.               *)

\* The widest operand of which every value is tried.
MaxWidth == 4

SmallWidths == 1 .. MaxWidth

\* The widths of the operands of the documentation: the addends 00110110
\* and 11100100 of addWithCarries, and two general-purpose registers.
DocWidths == {8, 32}

DocValues(nBits) == IF nBits = 8 THEN {54, 228} ELSE {5, 7}

ValuesOfWidth(nBits) ==
    IF nBits \in SmallWidths THEN 0 .. (2 ^ nBits - 1) ELSE DocValues(nBits)

\* The names of the unknowns among the operands: two for the addends, one
\* for the carry.
VariableNames == {1, 2}

CarryNames == {3}

\* Known constants of every width, and unknowns of the small widths.
Operands(nBits) ==
    {create_integer(nBits, v) : v \in ValuesOfWidth(nBits)}
        \cup {create_variable(nBits, name) :
                name \in IF nBits \in SmallWidths THEN VariableNames ELSE {}}

CarryOperands ==
    {create_integer(1, 0), create_integer(1, 1)}
        \cup {create_variable(1, name) : name \in CarryNames}

Arithmetic(op, widths, args) == [op |-> op, widths |-> widths, args |-> args]

Computed(c, r) ==
    /\ call' = c
    /\ result' = OptionalOf(r)
    /\ UNCHANGED <<map_, before>>
    /\ PolicyIdle

ArithmeticInit ==
    /\ map_ = <<>>
    /\ before = <<>>
    /\ call = NoCall
    /\ result = NothingOf
    /\ NoPolicy

Add ==
    /\ Ready
    /\ \E nBits \in SmallWidths \cup DocWidths :
        \E a, b \in Operands(nBits) :
            Computed(Arithmetic("add", <<nBits>>, <<a, b>>), add(nBits, a, b))

AddWithCarries ==
    /\ Ready
    /\ \E nBits \in SmallWidths \cup {8} :
        \E a, b \in Operands(nBits), c \in CarryOperands :
            Computed(Arithmetic("addWithCarries", <<nBits>>, <<a, b, c>>),
                     addWithCarries(nBits, a, b, c))

Extract ==
    /\ Ready
    /\ \E nBits \in SmallWidths \cup {8} :
        \E EndAt \in 1 .. nBits :
            \E BeginAt \in 0 .. EndAt - 1, a \in Operands(nBits) :
                Computed(Arithmetic("extract", <<BeginAt, EndAt, nBits>>, <<a>>),
                         extract(BeginAt, EndAt, nBits, a))

Concat ==
    /\ Ready
    /\ \E Len1, Len2 \in SmallWidths :
        \E a \in Operands(Len1), b \in Operands(Len2) :
            Computed(Arithmetic("concat", <<Len1, Len2>>, <<a, b>>),
                     concat(Len1, Len2, a, b))

ArithmeticReturn ==
    /\ ~Ready
    /\ call' = NoCall
    /\ result' = NothingOf
    /\ UNCHANGED <<map_, before>>
    /\ PolicyIdle

ArithmeticNext == Add \/ AddWithCarries \/ Extract \/ Concat \/ ArithmeticReturn

ArithmeticSpec == ArithmeticInit /\ [][ArithmeticNext]_vars

----------------------------------------------------------------------------
(* Properties of the container.                                            *)

InInterval(i, s) == ~isEmpty(i) /\ i.lo <= s /\ s <= i.hi

\* The scalars for which find succeeds.
Mapped(m) == {s \in Scalars : find(m, s) # End(m)}

RECURSIVE SumWidths(_)
SumWidths(m) ==
    IF m = <<>> THEN 0 ELSE (Head(m).key.hi - Head(m).key.lo + 1) + SumWidths(Tail(m))

InsertRan == call.op = "insert" /\ ~isEmpty(call.key)
EraseRan == call.op = "erase" /\ ~isEmpty(call.key)

\* C1: after any sequence of insert, erase, insertMultiple, eraseMultiple
\* and clear, no two stored nodes have overlapping intervals.
C1_NoOverlappingNodes ==
    \A i \in 1 .. Len(map_) :
        \A j \in (i + 1) .. Len(map_) :
            ~IntervalIsOverlapping(map_[i].key, map_[j].key)

\* An insert into the middle of a single node left three nodes.
C1_Witness ==
    /\ InsertRan
    /\ Len(before) = 1
    /\ Len(map_) = 3

\* C2: with the default policy there are never two stored nodes (I1,V1),
\* (I2,V2) with I1.greatest + 1 = I2.least and V1 = V2.
C2_NoMergeableNeighbours ==
    \A i, j \in 1 .. Len(map_) :
        map_[i].key.hi + 1 = map_[j].key.lo =>
            ~merge(map_[i].key, map_[i].value, map_[j].key, map_[j].value)

\* An insert fused with both neighbours while another, differently valued
\* node abuts the fused node.
C2_Witness ==
    /\ InsertRan
    /\ Len(map_) = Len(before) - 1
    /\ \E i \in 1 .. Len(map_) - 1 :
        /\ map_[i].key.hi + 1 = map_[i + 1].key.lo
        /\ map_[i].value # map_[i + 1].value

\* C3: after insert(I, v, makeHole = true) with I non-empty, getOptional(s)
\* is v for every scalar s in I and is what it was before the insert for
\* every scalar s outside I.
C3_InsertIsMapUpdate ==
    (InsertRan /\ call.makeHole) =>
        \A s \in Scalars :
            getOptional(map_, s) =
                IF InInterval(call.key, s) THEN call.value ELSE getOptional(before, s)

\* The insert overwrote the middle of a node holding the other value and
\* fused with nothing.
C3_Witness ==
    /\ InsertRan
    /\ call.makeHole
    /\ \E n \in 1 .. Len(before) :
        /\ before[n].key.lo < call.key.lo
        /\ call.key.hi < before[n].key.hi
        /\ before[n].value # call.value
    /\ \E s \in Scalars : ~InInterval(call.key, s) /\ getOptional(map_, s) = Nothing

\* C4: after erase(I), getOptional(s) is nothing for every scalar s in I and
\* is what it was before the erase for every scalar s outside I, whether a
\* node was removed, shrunk on either side, or split in two.
C4_EraseIsMapRemoval ==
    (call.op = "erase") =>
        \A s \in Scalars :
            getOptional(map_, s) =
                IF InInterval(call.key, s) THEN Nothing ELSE getOptional(before, s)

\* An erase split a node in two.
C4_WitnessSplit ==
    /\ EraseRan
    /\ Len(before) = 1
    /\ Len(map_) = 2

\* One erase shrank a node on the right, removed the next node and shrank
\* the one after it on the left.
C4_Witness ==
    /\ EraseRan
    /\ Len(before) = 3
    /\ Len(map_) = 2
    /\ before[1].key.lo < call.key.lo
    /\ call.key.lo <= before[1].key.hi
    /\ before[3].key.lo <= call.key.hi
    /\ call.key.hi < before[3].key.hi

\* C5: immediately after insert(I, v) with makeHole = true, contains(I)
\* returns true.
C5_InsertThenContains ==
    (call.op = "insert" /\ call.makeHole) => contains(map_, call.key)

\* Before the insert only part of I was mapped.
C5_Witness ==
    /\ InsertRan
    /\ call.makeHole
    /\ isOverlapping(before, call.key)
    /\ ~contains(before, call.key)
    /\ contains(map_, call.key)

\* C6: immediately after erase(I), isOverlapping(I) returns false.
C6_EraseThenDistinct ==
    (call.op = "erase") => ~isOverlapping(map_, call.key)

\* The erased interval overlapped two nodes, each only in part.
C6_Witness ==
    /\ EraseRan
    /\ isOverlapping(before, call.key)
    /\ Len(before) = 2
    /\ Len(map_) = 2
    /\ map_ # before

\* C7 as stated: insert(I, v) followed by erase(I) yields a map with the
\* hull M had before the insert and with no scalar of I covered.
C7_RoundTripKeepsHull ==
    (InsertRan /\ call.makeHole) =>
        LET r == erase(map_, call.key) IN
        /\ hull(r) = hull(before)
        /\ \A n \in 1 .. Len(r) : ~IntervalIsOverlapping(r[n].key, call.key)

\* C7 amended: insert(I, v) followed by erase(I) yields a map in which no
\* node covers a scalar of I, and which has the hull (indeed the nodes) M had
\* before the insert whenever no node of M overlapped I.
C7_RoundTripErasesInterval ==
    (InsertRan /\ call.makeHole) =>
        LET r == erase(map_, call.key) IN
        /\ \A n \in 1 .. Len(r) : ~IntervalIsOverlapping(r[n].key, call.key)
        /\ ~isOverlapping(before, call.key) => (r = before /\ hull(r) = hull(before))

\* The insert filled the gap between two nodes of its own value.
C7_Witness ==
    /\ InsertRan
    /\ call.makeHole
    /\ ~isOverlapping(before, call.key)
    /\ Len(before) >= 2
    /\ Len(map_) = Len(before) - 1
    /\ hull(erase(map_, call.key)) = hull(before)

LeftNeighbours(m, i, v) ==
    {n \in 1 .. Len(m) : m[n].key.hi + 1 = i.lo /\ m[n].value = v}

RightNeighbours(m, i, v) ==
    {n \in 1 .. Len(m) : i.hi + 1 = m[n].key.lo /\ m[n].value = v}

\* The hull of interval i and the nodes L and R of m that abut it.
FusedKey(m, i, L, R) ==
    Hull(IF L = {} THEN i.lo ELSE m[CHOOSE n \in L : TRUE].key.lo,
         IF R = {} THEN i.hi ELSE m[CHOOSE n \in R : TRUE].key.hi)

DocKey15 == Hull(1, 5)
DocKey66 == Hull(6, 6)
DocKey23 == Hull(2, 3)
DocAfterFirstInsert == <<Node(DocKey15, "a")>>
DocAfterSecondInsert == <<Node(Hull(1, 6), "a")>>

\* The first two calls of the class documentation's example: insert([1,5],"a")
\* on the empty map yields first, and insert([6,6],"a") on that yields second.
DocInsertsRan(first, second) ==
    /\ (call.op = "insert" /\ call.key = DocKey15 /\ call.value = "a" /\ before = <<>>) =>
        map_ = first
    /\ (call.op = "insert" /\ call.key = DocKey66 /\ call.value = "a" /\ before = first) =>
        map_ = second

\* C9: an insert of I with value v that finds a node abutting I on the left
\* (and likewise on the right) with a value equal to v leaves a single fused
\* node whose key is the hull of the fused intervals and whose value is v;
\* insert([1,5],"a") then insert([6,6],"a") on an empty map leaves exactly
\* the node ([1,6],"a").
C9_InsertFusesNeighbours ==
    /\ (InsertRan /\ call.makeHole) =>
        LET L == LeftNeighbours(before, call.key, call.value)
            R == RightNeighbours(before, call.key, call.value)
            k == FusedKey(before, call.key, L, R)
        IN
        /\ \E n \in 1 .. Len(map_) :
            /\ map_[n].value = call.value
            /\ IntervalIsContaining(map_[n].key, k)
            /\ L # {} => map_[n].key.lo = k.lo
            /\ R # {} => map_[n].key.hi = k.hi
            /\ \A o \in 1 .. Len(map_) :
                o # n => ~IntervalIsOverlapping(map_[o].key, k)
    /\ DocInsertsRan(DocAfterFirstInsert, DocAfterSecondInsert)

\* insert([6,6],"a") ran on the map holding only ([1,5],"a").
C9_Witness ==
    /\ call = Call("insert", DocKey66, "a", TRUE, <<>>)
    /\ before = DocAfterFirstInsert
    /\ LeftNeighbours(before, call.key, call.value) # {}
    /\ Len(map_) = 1

\* An insert fused with a neighbour on each side.
C9_WitnessBothSides ==
    /\ InsertRan
    /\ LeftNeighbours(before, call.key, call.value) # {}
    /\ RightNeighbours(before, call.key, call.value) # {}
    /\ Len(map_) = Len(before) - 1

\* C10 as stated: insert([1,5],"a"), insert([6,6],"a"), erase([2,3]) from an
\* empty map yields the three nodes [1,1], [4,5] and [6,6], each with "a".
C10_DocEraseLeavesThreeNodes ==
    /\ DocInsertsRan(DocAfterFirstInsert, DocAfterSecondInsert)
    /\ (call.op = "erase" /\ call.key = DocKey23 /\ before = DocAfterSecondInsert) =>
        map_ = <<Node(Hull(1, 1), "a"), Node(Hull(4, 5), "a"), Node(Hull(6, 6), "a")>>

\* C10 amended: the two inserts leave the single node ([1,6],"a"), and
\* erase([2,3]) then yields exactly two nodes, [1,1] and [4,6], each "a".
C10_DocEraseLeavesTwoNodes ==
    /\ DocInsertsRan(DocAfterFirstInsert, DocAfterSecondInsert)
    /\ (call.op = "erase" /\ call.key = DocKey23 /\ before = DocAfterSecondInsert) =>
        map_ = <<Node(Hull(1, 1), "a"), Node(Hull(4, 6), "a")>>

\* erase([2,3]) ran on the map holding only ([1,6],"a").
C10_Witness ==
    /\ call.op = "erase"
    /\ call.key = DocKey23
    /\ before = DocAfterSecondInsert
    /\ Len(map_) = 2

----------------------------------------------------------------------------
(* Properties of the const methods and of insert without makeHole.         *)

\* The number of scalars of a non-empty interval, as an unbounded integer.
Width(i) == i.hi - i.lo + 1

Minimum(S) == CHOOSE x \in S : \A y \in S : x <= y
Maximum(S) == CHOOSE x \in S : \A y \in S : x >= y

\* The scalars of the domain that lie in no node's key.
Unmapped(m) == {s \in Scalars : \A n \in 1 .. Len(m) : ~InInterval(m[n].key, s)}

Called(op) == call.op = op

\* C11 as stated: bestFit(size, start) returns, among the nodes at or after
\* start whose interval size is >= size, the one of smallest interval size,
\* the earliest such node on ties, and returns the end iterator iff no node
\* at or after start has interval size >= size.  The interval size is read as
\* Interval::size() gives it.
C11_BestFitIsSmallestFit ==
    Called("bestFit") =>
        LET fits == {n \in call.start .. Len(map_) : IntervalSize(map_[n].key) >= call.arg}
            best == result.value
        IN IF fits = {} THEN best = End(map_)
           ELSE /\ best \in fits
                /\ \A n \in fits : IntervalSize(map_[best].key) <= IntervalSize(map_[n].key)
                /\ \A n \in fits :
                    n < best => IntervalSize(map_[best].key) < IntervalSize(map_[n].key)

\* C11 holds of every map that has no node spanning the whole domain: the
\* size() of such a node wraps to 0, which bestFit neither takes for an exact
\* fit nor finds greater than any size.
C11_BestFitExceptWholeDomain ==
    \/ \E n \in 1 .. Len(map_) : map_[n].key = Hull(0, ScalarMax)
    \/ C11_BestFitIsSmallestFit

\* bestFit returned the end iterator although the only node spans the whole
\* domain.
C11_WholeDomainMissed ==
    /\ Called("bestFit")
    /\ Len(map_) = 1
    /\ map_[1].key = Hull(0, ScalarMax)
    /\ call.start = 1
    /\ result.value = End(map_)

\* The example's map and call: nodes [0,9], [20,29], [40,79], bestFit(10, begin).
DocBestFitRan ==
    /\ Called("bestFit")
    /\ [n \in 1 .. Len(map_) |-> map_[n].key] = DocFitKeys
    /\ call.arg = 10
    /\ call.start = 1

\* C12 as stated: on the map whose nodes are exactly [0,9], [20,29] and
\* [40,79], bestFit(size = 10, start = begin) returns the node [20,29].
C12_DocBestFitReturnsSecondNode ==
    DocBestFitRan => (result.value # End(map_) /\ map_[result.value].key = Hull(20, 29))

\* C12 amended: on that map bestFit(size = 10, start = begin) returns the
\* node [0,9], the first node of size exactly 10.
C12_DocBestFitReturnsFirstNode ==
    DocBestFitRan => (result.value = 1 /\ map_[result.value].key = Hull(0, 9))

\* bestFit(10, begin) ran on the example's map.
C12_Witness ==
    /\ DocBestFitRan
    /\ result.value = 1

\* C13: firstFit(size, start) returns the first node at or after start whose
\* interval holds at least size scalars (the interval spanning the whole
\* domain, whose size() wraps to 0, included), and the end iterator iff there
\* is no such node at or after start.
C13_FirstFitIsFirstLargeNode ==
    Called("firstFit") =>
        LET fits == {n \in call.start .. Len(map_) : Width(map_[n].key) >= call.arg}
        IN result.value = IF fits = {} THEN End(map_) ELSE Minimum(fits)

\* firstFit passed over a node that was too small and returned a later one.
C13_Witness ==
    /\ Called("firstFit")
    /\ call.start = 1
    /\ result.value > 1
    /\ result.value # End(map_)

\* firstFit returned the node that spans the whole domain.
C13_WitnessWholeDomain ==
    /\ Called("firstFit")
    /\ call.arg > 0
    /\ Len(map_) = 1
    /\ result.value = 1
    /\ map_[1].key = Hull(0, ScalarMax)

\* C14: contains(K) returns true iff every scalar of K lies within the key
\* of some stored node, several abutting nodes with different values
\* included; contains of the empty interval is true.
C14_ContainsIffEveryScalarMapped ==
    Called("contains") =>
        /\ result # Aborted
        /\ result.value = (\A s \in Scalars : InInterval(call.arg, s) => s \notin Unmapped(map_))
        /\ isEmpty(call.arg) => result.value

\* contains returned true for an interval that lies across two abutting
\* nodes of different values.
C14_Witness ==
    /\ Called("contains")
    /\ result.value = TRUE
    /\ \E n \in 1 .. Len(map_) - 1 :
        /\ call.arg.lo <= map_[n].key.hi
        /\ map_[n + 1].key.lo <= call.arg.hi
        /\ map_[n].value # map_[n + 1].value

\* The nodes of before that overlap the inserted interval.
Overlapped == {n \in 1 .. Len(before) : IntervalIsOverlapping(before[n].key, call.key)}

\* C15: insert(I, v, makeHole = false) leaves the map as it was whenever I
\* overlaps a node, even if part of I is unmapped; when I overlaps no node it
\* inserts I with v, fused with the abutting nodes of value v.
C15_InsertWithoutHole ==
    (InsertRan /\ ~call.makeHole) =>
        IF Overlapped # {} THEN map_ = before
        ELSE LET L == LeftNeighbours(before, call.key, call.value)
                 R == RightNeighbours(before, call.key, call.value)
             IN /\ {map_[n] : n \in 1 .. Len(map_)} =
                        {before[n] : n \in (1 .. Len(before)) \ (L \cup R)}
                            \cup {Node(FusedKey(before, call.key, L, R), call.value)}
                /\ Len(map_) = Len(before) + 1 - Cardinality(L \cup R)

\* An insert without makeHole found part of its interval mapped and part
\* unmapped.
C15_Witness ==
    /\ InsertRan
    /\ ~call.makeHole
    /\ Overlapped # {}
    /\ ~contains(before, call.key)
    /\ map_ = before

\* An insert without makeHole overlapped no node and fused with a neighbour.
C15_WitnessInserted ==
    /\ InsertRan
    /\ ~call.makeHole
    /\ Overlapped = {}
    /\ Len(before) >= 2
    /\ Len(map_) = Len(before)

\* C16: operator[](s) for a scalar s in no node's key raises the domain error
\* and leaves the map as it was; for a scalar s inside a node's key it
\* returns that node's value.
C16_SubscriptOrDomainError ==
    Called("operator[]") =>
        /\ map_ = before
        /\ IF call.arg \in Unmapped(map_) THEN result = [kind |-> "domain_error"]
           ELSE \E n \in 1 .. Len(map_) :
                    /\ InInterval(map_[n].key, call.arg)
                    /\ result = OptionalOf(map_[n].value)

\* operator[] raised the domain error for a scalar in a gap between nodes.
C16_Witness ==
    /\ Called("operator[]")
    /\ result = [kind |-> "domain_error"]
    /\ Len(map_) >= 2
    /\ least(map_) < call.arg
    /\ call.arg < greatest(map_)

EmptyInsertRan == call.op = "insert" /\ isEmpty(call.key)

\* C17 as stated: inserting an empty interval halts instead of returning
\* normally.
C17_EmptyInsertHalts ==
    EmptyInsertRan => result = "abort"

\* C17 amended: inserting an empty interval returns normally and leaves the
\* map as it was.
C17_EmptyInsertReturns ==
    EmptyInsertRan => (result = "void" /\ map_ = before)

\* An empty interval was inserted into a map that holds nodes.
C17_Witness ==
    /\ EmptyInsertRan
    /\ result = "void"
    /\ Len(map_) >= 2

Undefined ==
    \/ call.op \in {"hull", "least", "greatest"} /\ isEmptyMap(map_)
    \/ Called("leastUnmapped") /\ \A s \in call.arg .. ScalarMax : s \notin Unmapped(map_)
    \/ Called("greatestUnmapped") /\ \A s \in 0 .. call.arg : s \notin Unmapped(map_)

\* C18 as stated: hull(), least(), greatest(), size(), leastUnmapped(l) and
\* greatestUnmapped(u) return nothing (the empty interval for hull) and never
\* abort when the result is undefined, least() and greatest() on an empty map
\* included.
C18_AccessorsReturnNothing ==
    /\ result # Aborted
    /\ Undefined => result = (IF Called("hull") THEN OptionalOf(EmptyInterval) ELSE NothingOf)

\* C18 amended: hull() of an empty map returns the empty interval, size()
\* of an empty map returns 0, leastUnmapped and greatestUnmapped return
\* nothing when no scalar is left, and none of these aborts; least() and
\* greatest() called on an empty map never return nothing: the call fails
\* its ASSERT_forbid(isEmpty()).
C18_AccessorsExceptLeastGreatest ==
    /\ result = Aborted => (call.op \in {"least", "greatest"} /\ isEmptyMap(map_))
    /\ (Undefined /\ call.op \notin {"least", "greatest"}) =>
            result = (IF Called("hull") THEN OptionalOf(EmptyInterval) ELSE NothingOf)
    /\ (Called("size") /\ isEmptyMap(map_)) => result = OptionalOf(0)
    /\ (call.op \in {"least", "greatest"} /\ isEmptyMap(map_)) => result # NothingOf

\* least() was called on an empty map and halted.
C18_Witness ==
    /\ Called("least")
    /\ isEmptyMap(map_)
    /\ result = Aborted

\* C19: leastUnmapped(lowerLimit) returns the smallest scalar s >= lowerLimit
\* that lies in no node's key, and nothing iff every scalar of
\* [lowerLimit, ScalarMax] is mapped; on an empty map it returns lowerLimit.
C19_LeastUnmapped ==
    Called("leastUnmapped") =>
        LET free == {s \in Unmapped(map_) : s >= call.arg}
        IN /\ result = IF free = {} THEN NothingOf ELSE OptionalOf(Minimum(free))
           /\ isEmptyMap(map_) => result = OptionalOf(call.arg)

\* leastUnmapped stepped over two abutting nodes, the second ending at
\* ScalarMax, and returned nothing.
C19_Witness ==
    /\ Called("leastUnmapped")
    /\ result = NothingOf
    /\ Len(map_) >= 2
    /\ call.arg < map_[Len(map_)].key.lo

\* C20: greatestUnmapped(upperLimit) returns the largest scalar
\* s <= upperLimit that lies in no node's key, and nothing iff every scalar
\* of [0, upperLimit] is mapped.
C20_GreatestUnmapped ==
    Called("greatestUnmapped") =>
        LET free == {s \in Unmapped(map_) : s <= call.arg}
        IN result = IF free = {} THEN NothingOf ELSE OptionalOf(Maximum(free))

\* greatestUnmapped stepped down over two abutting nodes, the first starting
\* at 0, and returned nothing.
C20_Witness ==
    /\ Called("greatestUnmapped")
    /\ result = NothingOf
    /\ Len(map_) >= 2
    /\ call.arg > map_[1].key.hi


\* The pairs of a node of the map at or after thisIter and a node of the
\* other container at or after otherIter whose keys overlap.
OverlappingPairs(m, thisIter, other, otherIter) ==
    {pair \in (thisIter .. Len(m)) \X (otherIter .. Len(other)) :
        IntervalIsOverlapping(m[pair[1]].key, other[pair[2]].key)}

\* C21: findFirstOverlap(thisIter, other, otherIter) returns the pair of end
\* iterators exactly when no node of the map at or after thisIter overlaps
\* a node of other at or after otherIter; otherwise it returns a pair of
\* overlapping nodes at or after the starts, and no overlapping pair has an
\* earlier node on either side.
C21_FindFirstOverlapIsEarliestPair ==
    Called("findFirstOverlap") =>
        LET other == call.arg
            pairs == OverlappingPairs(map_, call.start.first, other, call.start.second)
            found == result.value
        IN /\ (found = IteratorPair(End(map_), End(other))) <=> (pairs = {})
           /\ pairs # {} =>
                /\ <<found.first, found.second>> \in pairs
                /\ \A pair \in pairs : found.first <= pair[1] /\ found.second <= pair[2]

\* Both sides were advanced before the overlapping pair was found.
C21_Witness ==
    /\ Called("findFirstOverlap")
    /\ result.value.first # End(map_)
    /\ result.value.first > call.start.first
    /\ result.value.second > call.start.second

\* No pair overlaps, and the end iterators came back.
C21_WitnessNoOverlap ==
    /\ Called("findFirstOverlap")
    /\ call.start.first # End(map_)
    /\ call.start.second # End(call.arg)
    /\ result.value = IteratorPair(End(map_), End(call.arg))


----------------------------------------------------------------------------
(* Properties of the policy.                                               *)

\* The last call of the run so far and the calls before it.
Last == Len(trace)
Earlier == 1 .. Len(trace) - 1

Op(i) == trace[i].call.op
ReturnedValue(i) == trace[i].result.kind = "value"

\* Calls i and j read memory at the same address with the same width, and
\* both returned a value.
SameRead(i, j) ==
    /\ Op(i) = "readMemory" /\ Op(j) = "readMemory"
    /\ trace[i].call.nBits = trace[j].call.nBits
    /\ equal_to(trace[i].call.addr, trace[j].call.addr)
    /\ ReturnedValue(i) /\ ReturnedValue(j)

\* Call k wrote memory at an address that may alias the one call i used.
AliasingWrite(k, i) ==
    /\ Op(k) = "writeMemory"
    /\ may_alias(MemoryCell(trace[k].call.addr, trace[k].call.data, trace[k].call.nBits \div 8),
                 MemoryCell(trace[i].call.addr, trace[i].call.addr, trace[i].call.nBits \div 8))

Between(i, j) == (i + 1) .. (j - 1)

ReadAfterWrite ==
    /\ Len(trace) >= 2
    /\ Op(Last) = "readMemory" /\ Op(Last - 1) = "writeMemory"
    /\ trace[Last].call.nBits = trace[Last - 1].call.nBits
    /\ equal_to(trace[Last].call.addr, trace[Last - 1].call.addr)

\* C23: readMemory<w>(a) made right after writeMemory<w>(a, d) returns a
\* value structurally equal to d, for every width, address and data.
C23_ReadReturnsWrittenValue ==
    ReadAfterWrite =>
        /\ ReturnedValue(Last)
        /\ equal_to(trace[Last].result.value, trace[Last - 1].call.data)

\* The same for the writes of a known constant and the writes of 32 bits.
C23_ReadReturnsWrittenConstantOrWord ==
    /\ ReadAfterWrite
    /\ is_known(trace[Last - 1].call.data) \/ trace[Last].call.nBits = 32
    => /\ ReturnedValue(Last)
       /\ equal_to(trace[Last].result.value, trace[Last - 1].call.data)


\* The names of the variables of an expression; none for what is not one.
RECURSIVE Names(_)
Names(expr) ==
    IF expr.kind = "variable" THEN {expr.n}
    ELSE IF expr.kind = "internal"
    THEN UNION {Names(expr.children[i]) : i \in 1 .. Len(expr.children)}
    ELSE {}

\* The names in the arguments and the result of call i.
CallNames(i) ==
    Names(trace[i].call.addr) \cup Names(trace[i].call.data)
        \cup (IF ReturnedValue(i) THEN Names(trace[i].result.value) ELSE {})

\* The example's first read: call 1, or call 2 after a write that seeds
\* the address.
FirstRead == IF Len(trace) > 0 /\ Op(1) = "writeMemory" THEN 2 ELSE 1

Value(i) == trace[i].result.value

\* C24: in read(A), read(A), write(B, x), read(A), read(A) with B unknown,
\* the second read returns what the first returned; the third returns a
\* value made of a new unknown, equal neither to the first value, nor to a
\* constant written at A before, nor to x; the fourth returns what the
\* third returned.
C24_ClobberingWriteMakesReadsFresh ==
    LET r == FirstRead IN
    /\ Len(trace) >= r + 1 => equal_to(Value(r), Value(r + 1))
    /\ Len(trace) >= r + 3 =>
        /\ ReturnedValue(r + 3)
        /\ ~equal_to(Value(r + 3), Value(r))
        /\ \A i \in 1 .. (r + 2) :
            Op(i) = "writeMemory" =>
                ~equal_to(Value(r + 3),
                          unsignedExtend(trace[i].call.nBits, trace[r + 3].call.nBits,
                                         trace[i].call.data))
        /\ Names(Value(r + 3)) # {}
        /\ \A i \in 1 .. (r + 2) : Names(Value(r + 3)) \cap CallNames(i) = {}
    /\ Len(trace) >= r + 4 => equal_to(Value(r + 3), Value(r + 4))

\* The scenario of the spec is complete: 0xdead written at 0x1000 and read
\* twice, a write at an unknown address, and two reads of a new value.
C24_Witness ==
    /\ Len(trace) = 6
    /\ Op(1) = "writeMemory" /\ trace[1].call.addr = ConstantAddress
    /\ trace[1].call.nBits = 32
    /\ Value(2) = KnownData(32)
    /\ Op(4) = "writeMemory" /\ ~is_known(trace[4].call.addr)
    /\ ~is_known(Value(5))
    /\ Value(6) = Value(5)


\* The cells of mem a read of nBits bits at addr must alias.
MustAliasing(mem, nBits, addr) ==
    {i \in 1 .. Len(mem) : must_alias(MemoryCell(addr, addr, nBits \div 8), mem[i])}

\* A written cell of mem may alias a read of nBits bits at addr.
MayAliasWritten(mem, nBits, addr) ==
    \E i \in 1 .. Len(mem) :
        mem[i].written /\ may_alias(MemoryCell(addr, addr, nBits \div 8), mem[i])

\* The step is a readMemory that finds in cur.mem neither a cell it must
\* alias nor a written cell it may alias.
ReadsInitialValue ==
    /\ trace' # trace
    /\ call'.op = "readMemory"
    /\ MustAliasing(policy.cur_state.mem, call'.nBits, call'.addr) = {}
    /\ ~MayAliasWritten(policy.cur_state.mem, call'.nBits, call'.addr)

\* What such a read does: with a cell of orig.mem it must alias, it returns
\* that cell's data, appends the cell to cur.mem and leaves orig as it is;
\* with none, it appends one cell holding a variable not used so far to
\* orig.mem and to cur.mem and returns that variable.
TakesValueFromOrig ==
    LET found == MustAliasing(policy.orig_state.mem, call'.nBits, call'.addr)
        cell == policy.orig_state.mem[Minimum(found)]
        new_cell == policy'.cur_state.mem[Len(policy'.cur_state.mem)]
    IN IF found # {}
       THEN /\ result' = OptionalOf(unsignedExtend(32, call'.nBits, cell.data))
            /\ policy'.cur_state.mem = Append(policy.cur_state.mem, cell)
            /\ policy'.orig_state = policy.orig_state
       ELSE /\ policy'.cur_state.mem = Append(policy.cur_state.mem, new_cell)
            /\ policy'.orig_state.mem = Append(policy.orig_state.mem, new_cell)
            /\ new_cell = MemoryCell(call'.addr, new_cell.data, call'.nBits \div 8)
            /\ new_cell.data.kind = "variable"
            /\ new_cell.data.n >= policy.name_counter
            /\ result' = OptionalOf(unsignedExtend(32, call'.nBits, new_cell.data))

\* C25: a readMemory at an address with no must-aliasing cell in cur.mem
\* and no may-aliasing written cell there takes its value from orig: the
\* data of orig's must-aliasing cell, copied to cur.mem, or else a new
\* unknown stored in a new cell of both orig.mem and cur.mem.
C25_ReadTakesValueFromOrig ==
    [][ReadsInitialValue => TakesValueFromOrig]_vars

\* The same, unless the cell of orig.mem is written or clobbered.
C25_ReadTakesValueFromUnwrittenOrig ==
    [][ReadsInitialValue
        /\ (\A i \in MustAliasing(policy.orig_state.mem, call'.nBits, call'.addr) :
                ~policy.orig_state.mem[i].written /\ ~policy.orig_state.mem[i].clobbered)
        => TakesValueFromOrig]_vars


\* A step that calls the primitive op.
Calls(op) == trace' # trace /\ call'.op = op

\* C26: every startInstruction sets cur.ip to the known address of its
\* instruction, counts the instruction and leaves the rest of cur alone;
\* the first one after construction copies the cur it leaves over orig,
\* and every later one leaves orig unchanged.
C26_FirstStartInstructionSavesOrig ==
    [][Calls("startInstruction") =>
        /\ policy'.cur_state =
               [policy.cur_state EXCEPT !.ip = create_integer(32, call'.addr.address)]
        /\ policy'.ninsns = policy.ninsns + 1
        /\ policy'.orig_state =
               IF policy.ninsns = 0 THEN policy'.cur_state ELSE policy.orig_state]_vars

\* Registers were written, the first instruction started, and a second one:
\* orig has the written stack pointer and the first instruction's address,
\* cur the second instruction's address.
C26_Witness ==
    /\ Len(trace) = 3
    /\ Op(1) = "writeGPR" /\ Op(2) = "startInstruction" /\ Op(3) = "startInstruction"
    /\ policy.orig_state.gpr[x86_gpr_sp] = trace[1].call.data
    /\ policy.orig_state.ip = create_integer(32, trace[2].call.addr.address)
    /\ policy.cur_state.ip = create_integer(32, trace[3].call.addr.address)
    /\ policy.cur_state.ip # policy.orig_state.ip


\* The register slots of a state and what a state holds in one.
Slots ==
    {<<"ip", 0>>} \cup ({"gpr"} \X (0 .. n_gprs - 1))
        \cup ({"segreg"} \X (0 .. n_segregs - 1)) \cup ({"flag"} \X (0 .. n_flags - 1))

Slot(state, s) == IF s[1] = "ip" THEN state.ip ELSE state[s[1]][s[2]]

SlotWidth(s) == IF s[1] = "segreg" THEN 16 ELSE IF s[1] = "flag" THEN 1 ELSE 32

\* Every slot of the state holds a variable of the slot's width, and no two
\* slots hold the same one.
DistinctUnknowns(state) ==
    /\ \A s \in Slots :
        Slot(state, s).kind = "variable" /\ Slot(state, s).nbits = SlotWidth(s)
    /\ \A s, t \in Slots : s # t => Slot(state, s).n # Slot(state, t).n

\* The names of the variables in the slots and the cells of a state.
NamesOfState(state) ==
    UNION {Names(Slot(state, s)) : s \in Slots}
        \cup UNION {Names(state.mem[i].address) \cup Names(state.mem[i].data) :
                        i \in 1 .. Len(state.mem)}

\* The names of the variables the policy holds or has handed to its caller.
NamesInUse ==
    NamesOfState(policy.orig_state) \cup NamesOfState(policy.cur_state)
        \cup UNION {CallNames(i) : i \in 1 .. Len(trace)}

\* A policy as its constructor leaves it.
FreshPolicy ==
    /\ policy.orig_state.mem = <<>>
    /\ policy.cur_state.mem = <<>>
    /\ DistinctUnknowns(policy.cur_state)
    /\ \A s \in Slots : Slot(policy.orig_state, s) = Slot(policy.cur_state, s)

\* The variables a step brings into the policy (into a state it changes) or
\* returns are none of those in use before, and a step that returns a
\* variable of its own making (undefined_, a read of memory not written
\* yet) returns such a one.
CreatesNewNames ==
    LET inUse == NamesInUse
        brought == (IF policy'.orig_state = policy.orig_state THEN {}
                    ELSE NamesOfState(policy'.orig_state))
                       \cup (IF policy'.cur_state = policy.cur_state THEN {}
                             ELSE NamesOfState(policy'.cur_state))
                       \cup (IF result'.kind = "value" THEN Names(result'.value) ELSE {})
    IN /\ \A name \in brought \ inUse : name >= policy.name_counter
       /\ \A name \in inUse : name < policy.name_counter
       /\ Calls("undefined_") => Names(result'.value) \cap inUse = {}
       /\ Calls("interrupt") =>
            /\ DistinctUnknowns(policy'.cur_state)
            /\ NamesOfState(policy'.cur_state) \cap inUse = {}

\* C27: a newly constructed Policy has empty memory in both states, a
\* different unknown in every register slot of cur, and the same unknowns
\* in the slots of orig; every unknown made later has a name that none
\* made before has.
C27_FreshPolicyAndFreshNames ==
    /\ trace = <<>> => FreshPolicy
    /\ [][CreatesNewNames]_vars

\* undefined_, a first read of memory and an interrupt have made unknowns.
C27_Witness ==
    /\ Len(trace) = 3
    /\ {Op(1), Op(2), Op(3)} = {"undefined_", "readMemory", "interrupt"}
    /\ DistinctUnknowns(policy.cur_state)
    /\ Cardinality(NamesInUse) >= 2 * StateNames + 2


\* The values the policy holds or has handed to its caller: what is in the
\* slots and the cells of both states, and the arguments and results of
\* the calls.
ValuesOfState(state) ==
    {Slot(state, s) : s \in Slots}
        \cup {state.mem[i].address : i \in 1 .. Len(state.mem)}
        \cup {state.mem[i].data : i \in 1 .. Len(state.mem)}

ValuesInUse ==
    ValuesOfState(policy.orig_state) \cup ValuesOfState(policy.cur_state)
        \cup {trace[i].call.data : i \in {j \in 1 .. Len(trace) : Op(j) = "writeMemory"}}
        \cup {trace[i].result.value : i \in {j \in 1 .. Len(trace) : ReturnedValue(j)}}

\* C28: interrupt empties cur.mem and puts into every register slot of cur
\* a newly allocated unknown, structurally equal to no value that existed
\* before the call, the slots of orig included; orig stays as it was.
C28_InterruptResetsCurrentState ==
    [][Calls("interrupt") =>
        /\ policy'.cur_state.mem = <<>>
        /\ DistinctUnknowns(policy'.cur_state)
        /\ {Slot(policy'.cur_state, s) : s \in Slots} \cap ValuesInUse = {}
        /\ policy'.orig_state = policy.orig_state]_vars

\* An interrupt came after a register and memory were written and memory
\* was read: cur has lost its cells and what was written, orig has the cell
\* of the read.
C28_Witness ==
    /\ Len(trace) = 4
    /\ Op(4) = "interrupt"
    /\ {Op(1), Op(2), Op(3)} = {"writeGPR", "readMemory", "writeFlag"}
    /\ policy.cur_state.mem = <<>>
    /\ Len(policy.orig_state.mem) = 1
    /\ ~is_known(policy.cur_state.gpr[x86_gpr_sp])
    /\ ~is_known(policy.cur_state.flag[0])


\* C29: once the first instruction has started, no primitive changes a
\* register slot of orig or a cell orig.mem already has, and orig.mem grows
\* only by one unwritten, unclobbered cell that a readMemory appends.
C29_OrigIsReadOnlySnapshot ==
    [][policy.ninsns >= 1 =>
        /\ \A s \in Slots : Slot(policy'.orig_state, s) = Slot(policy.orig_state, s)
        /\ \/ policy'.orig_state.mem = policy.orig_state.mem
           \/ /\ Calls("readMemory")
              /\ Len(policy'.orig_state.mem) = Len(policy.orig_state.mem) + 1
              /\ SubSeq(policy'.orig_state.mem, 1, Len(policy.orig_state.mem))
                     = policy.orig_state.mem
              /\ ~policy'.orig_state.mem[Len(policy'.orig_state.mem)].written
              /\ ~policy'.orig_state.mem[Len(policy'.orig_state.mem)].clobbered]_vars

\* After the first instruction started, cur was written and reset and
\* memory was read: orig differs from cur and has the cell of the read.
C29_Witness ==
    /\ Len(trace) = 4
    /\ Op(1) = "startInstruction"
    /\ {Op(2), Op(3), Op(4)} = {"writeGPR", "interrupt", "readMemory"}
    /\ Len(policy.orig_state.mem) = 1
    /\ policy.orig_state.gpr[x86_gpr_sp] # policy.cur_state.gpr[x86_gpr_sp]
    /\ policy.orig_state.ip = create_integer(32, trace[1].call.addr.address)

WrittenCell ==
    [address |-> call'.addr,
     data |-> unsignedExtend(call'.nBits, 32, call'.data),
     nbytes |-> call'.nBits \div 8,
     clobbered |-> FALSE,
     written |-> TRUE]

C37_AssertionsOfMemReadHold == result # Aborted

\* No two cells of mem must alias each other.
OneCellPerAddress(mem) ==
    \A i, j \in 1 .. Len(mem) : i # j => ~must_alias(mem[i], mem[j])

\* C38: neither cur.mem nor orig.mem has two cells with structurally equal
\* addresses and equal sizes.
C38_OneCellPerAddressAndSize ==
    /\ OneCellPerAddress(policy.cur_state.mem)
    /\ OneCellPerAddress(policy.orig_state.mem)

\* One address was written, read with another width, written again and
\* read at the stack pointer: cur.mem has three cells, two of them at the
\* same address.
C38_Witness ==
    /\ Len(trace) = 4
    /\ Len(policy.cur_state.mem) = 3
    /\ \E i, j \in 1 .. 3 :
        /\ i # j
        /\ policy.cur_state.mem[i].address = policy.cur_state.mem[j].address
        /\ policy.cur_state.mem[i].nbytes # policy.cur_state.mem[j].nbytes
    /\ Cardinality({i \in 1 .. 4 : Op(i) = "writeMemory"}) = 2

\* The step is a readMemory made right after an interrupt.
ReadsAfterInterrupt == Calls("readMemory") /\ call.op = "interrupt"

\* Such a read returns the data of the cell of orig.mem it must alias, and
\* a variable not used so far if orig.mem has no such cell.
ReturnsInitialValue ==
    LET found == MustAliasing(policy.orig_state.mem, call'.nBits, call'.addr) IN
    /\ result'.kind = "value"
    /\ IF found # {}
       THEN result'.value = unsignedExtend(32, call'.nBits,
                                           policy.orig_state.mem[Minimum(found)].data)
       ELSE /\ Names(result'.value) # {}
            /\ \A name \in Names(result'.value) : name >= policy.name_counter

\* C40: a readMemory made after an interrupt at an address that has a
\* must-aliasing cell in orig.mem returns that cell's data; at an address
\* that has none it returns a new unknown.
C40_ReadAfterInterruptReturnsInitialValue ==
    [][ReadsAfterInterrupt => ReturnsInitialValue]_vars

\* The same, unless the cell of orig.mem is written or clobbered.
C40_ReadAfterInterruptReturnsUnwrittenInitialValue ==
    [][ReadsAfterInterrupt
        /\ (\A i \in MustAliasing(policy.orig_state.mem, call'.nBits, call'.addr) :
                ~policy.orig_state.mem[i].written /\ ~policy.orig_state.mem[i].clobbered)
        => ReturnsInitialValue]_vars


\* The calls the erasure of E makes on the policy for the node N: none if E
\* covers N or misses it, split at E.greatest+1 and then truncate at
\* E.least if E is strictly inside N, truncate at E.least if E takes N's
\* right part, split at E.greatest+1 if E takes N's left part.
PolicyCallsFor(N, E) ==
    LET splitCall == [op |-> "split", interval |-> N.key, value |-> N.value,
                      splitPoint |-> E.hi + 1]
        truncateCall == [op |-> "truncate", interval |-> N.key, value |-> N.value,
                         splitPoint |-> E.lo]
    IN IF ~IntervalIsOverlapping(N.key, E) \/ IntervalIsContaining(E, N.key) THEN <<>>
       ELSE IF E.lo > N.key.lo /\ E.hi < N.key.hi
       THEN <<splitCall, [truncateCall EXCEPT !.interval = Hull(N.key.lo, E.hi)]>>
       ELSE IF E.lo > N.key.lo THEN <<truncateCall>>
       ELSE <<splitCall>>

RECURSIVE PolicyCallsFrom(_, _, _)
PolicyCallsFrom(m, E, i) ==
    IF i > Len(m) THEN <<>> ELSE PolicyCallsFor(m[i], E) \o PolicyCallsFrom(m, E, i + 1)

\* C36: erase(E) calls the policy for each node it affects, in key order:
\* not at all for a node E covers, split then truncate for a node E lies
\* strictly inside, truncate for a node that loses its right part, split
\* for a node that loses its left part; it never calls merge, and the
\* remnants carry the values the calls produced.
C36_ErasePolicyCalls ==
    Called("erase") /\ result # Aborted =>
        /\ result.value = PolicyCallsFrom(before, call.arg, 1)
        /\ \A i \in 1 .. Len(result.value) : result.value[i].op # "merge"
        /\ \A i \in 1 .. Len(result.value) :
            LET c == result.value[i]
                remnant == IF c.op = "split" THEN c.splitPoint ELSE c.splitPoint - 1
            IN getOptional(map_, remnant) = c.value

\* An erasure strictly inside a node: split, then truncate.
C36_Witness ==
    /\ Called("erase")
    /\ result # Aborted
    /\ Len(result.value) = 2
    /\ result.value[1].op = "split" /\ result.value[2].op = "truncate"
    /\ Len(map_) = Len(before) + 1

\* An erasure over the right part of one node and the left part of a later
\* one: truncate, then split.
C36_WitnessTwoNodes ==
    /\ Called("erase")
    /\ result # Aborted
    /\ Len(result.value) = 2
    /\ result.value[1].op = "truncate" /\ result.value[2].op = "split"


\* The node list of the maximal runs of m's scalar-to-value mapping from the
\* scalar s on; run holds the run that ends just before s, if there is one.
RECURSIVE MaximalRunsFrom(_, _, _)
MaximalRunsFrom(m, s, run) ==
    IF s > ScalarMax THEN run
    ELSE LET v == getOptional(m, s) IN
         IF v = Nothing THEN run \o MaximalRunsFrom(m, s + 1, <<>>)
         ELSE IF run # <<>> /\ run[1].value = v
         THEN MaximalRunsFrom(m, s + 1, <<[run[1] EXCEPT !.key = Hull(run[1].key.lo, s)]>>)
         ELSE run \o MaximalRunsFrom(m, s + 1, <<[key |-> Hull(s, s), value |-> v]>>)

MaximalRuns(m) == MaximalRunsFrom(m, 0, <<>>)

\* C39: with the default policy the node list is a function of the
\* scalar-to-value mapping: whatever inserts and erases led to the map, it
\* is the list of the maximal runs of consecutive scalars with equal value,
\* in key order.  Inserting a second time changes nothing, and insert(I, v)
\* followed by erase(I) leaves what erase(I) alone leaves.
C39_RepresentationIsCanonical ==
    /\ map_ = MaximalRuns(map_)
    /\ InsertRan =>
        /\ insert(map_, call.key, call.value, call.makeHole) = map_
        /\ erase(map_, call.key) = erase(before, call.key)

\* An insert over parts of two nodes fused with a neighbour on each side,
\* and erasing its interval splits the fused node again.
C39_Witness ==
    /\ InsertRan
    /\ call.makeHole
    /\ Len(before) = 2
    /\ Len(map_) = 1
    /\ map_[1].key.lo < call.key.lo
    /\ call.key.hi < map_[1].key.hi
    /\ \A n \in 1 .. 2 : IntervalIsOverlapping(before[n].key, call.key)
    /\ Len(erase(map_, call.key)) = 2


\* The values the unknown called name can take among the operands args:
\* every value of its width, or 0 alone if no operand is that unknown.
ValuesOfUnknown(args, name) ==
    {0} \cup UNION {0 .. (2 ^ args[i].nbits - 1) :
                    i \in {j \in 1 .. Len(args) :
                            args[j].kind = "variable" /\ args[j].n = name}}

\* The values the unknowns of the operands args can take together.
EnvironmentsOf(args) ==
    {[name \in VariableNames \cup CarryNames |->
        IF name = 1 THEN v1 ELSE IF name = 2 THEN v2 ELSE v3] :
        v1 \in ValuesOfUnknown(args, 1),
        v2 \in ValuesOfUnknown(args, 2),
        v3 \in ValuesOfUnknown(args, 3)}

KnownZero(a) == is_known(a) /\ a.n = 0

\* n modulo 2^nBits, for the n and nBits of the model.
Modulo(n, nBits) == IF nBits >= 31 THEN n ELSE n % (2 ^ nBits)

Known(nBits, n) ==
    [kind |-> "integer", nbits |-> nBits, n |-> n, op |-> "none", children |-> <<>>]

\* C31: add<w>(a, b) of two known constants is the known leaf
\* (a + b) mod 2^w; if exactly one operand is a known zero it is the other
\* operand itself; otherwise it is an ADD node over (a, b).
C31_AddFoldsConstantsAndZero ==
    Called("add") =>
        LET w == call.widths[1]
            a == call.args[1]
            b == call.args[2]
            r == result.value
        IN /\ is_known(a) /\ is_known(b) => r = Known(w, Modulo(a.n + b.n, w))
           /\ KnownZero(a) /\ ~KnownZero(b) => r = b
           /\ KnownZero(b) /\ ~KnownZero(a) => r = a
           /\ ~(is_known(a) /\ is_known(b)) /\ ~KnownZero(a) /\ ~KnownZero(b) =>
                /\ r.kind = "internal"
                /\ r.op = "OP_ADD"
                /\ r.nbits = w
                /\ r.children = <<a, b>>

\* The sum of the registers holding 5 and 7 is the known constant 12.
C31_Witness ==
    /\ Called("add")
    /\ call.args = <<Known(32, 5), Known(32, 7)>>
    /\ result.value = Known(32, 12)

\* A sum of two known constants that wraps at the width.
C31_WitnessWraps ==
    /\ Called("add")
    /\ is_known(call.args[1]) /\ is_known(call.args[2])
    /\ call.args[1].n + call.args[2].n >= 2 ^ call.widths[1]
    /\ is_known(result.value)

\* An unknown added to a known zero, and two unknowns.
C31_WitnessZeroAndNode ==
    /\ Called("add")
    /\ ~is_known(call.args[2])
    /\ \/ KnownZero(call.args[1]) /\ result.value = call.args[2]
       \/ ~is_known(call.args[1]) /\ result.value.kind = "internal"

\* C32 as stated: extract<lo, hi>(x) of a known constant x of value v, for
\* 0 <= lo < hi <= width(x), is the known constant (v >> lo) mod 2^(hi - lo).
C32_ExtractShiftsDown ==
    Called("extract") /\ is_known(call.args[1]) =>
        LET lo == call.widths[1]
            hi == call.widths[2]
        IN result.value = Known(hi - lo, (call.args[1].n \div (2 ^ lo)) % (2 ^ (hi - lo)))

\* What extract does for a known constant: it keeps the low hi - lo bits,
\* which are the bits [lo, hi) when lo = 0.
C32_ExtractKeepsLowBits ==
    Called("extract") /\ is_known(call.args[1]) =>
        result.value = Known(call.widths[2] - call.widths[1],
                             call.args[1].n % (2 ^ (call.widths[2] - call.widths[1])))

\* C33 as stated: concat(a, b) has the width width(a) + width(b) and denotes,
\* by CONCAT's convention that the first operand of the node supplies the
\* high-order bits, the value with b in the high-order and a in the
\* low-order bits.
C33_ConcatPutsSecondOperandHigh ==
    Called("concat") =>
        /\ result.value.nbits = call.widths[1] + call.widths[2]
        /\ \A env \in EnvironmentsOf(call.args) :
            Eval(result.value, env) =
                Eval(call.args[2], env) * (2 ^ call.widths[1]) + Eval(call.args[1], env)

\* What concat builds: a CONCAT node whose first operand is a, so that a
\* supplies the high-order bits.
C33_ConcatPutsFirstOperandHigh ==
    Called("concat") =>
        /\ result.value.nbits = call.widths[1] + call.widths[2]
        /\ \A env \in EnvironmentsOf(call.args) :
            Eval(result.value, env) =
                Eval(call.args[1], env) * (2 ^ call.widths[2]) + Eval(call.args[2], env)

\* Bit i of the natural n.
Bit(n, i) == (n \div (2 ^ i)) % 2

\* The carry out of bit position i when a, b and the carry c are added.
CarryOutOf(a, b, c, i) ==
    IF (a % (2 ^ (i + 1))) + (b % (2 ^ (i + 1))) + c >= 2 ^ (i + 1) THEN 1 ELSE 0

\* C34: addWithCarries<w>(a, b, c) returns a + b + zext(c) at width w, the
\* known constant (a + b + c) mod 2^w when all three are known, and sets
\* carry_out to EXTRACT[1, w+1) of zext(a) xor zext(b) xor
\* (zext(a) + zext(b) + zext(c)) over w + 1 bits, an expression whose value
\* has bit i equal to the carry out of bit position i.
C34_AddWithCarries ==
    Called("addWithCarries") =>
        LET w == call.widths[1]
            a == call.args[1]
            b == call.args[2]
            c == call.args[3]
            sum == result.value.sum
            carry_out == result.value.carry_out
        IN /\ is_known(a) /\ is_known(b) /\ is_known(c) =>
                sum = Known(w, (a.n + b.n + c.n) % (2 ^ w))
           /\ carry_out.kind = "internal"
           /\ carry_out.op = "OP_EXTRACT"
           /\ carry_out.nbits = w
           /\ carry_out.children[1] = Known(32, 1)
           /\ carry_out.children[2] = Known(32, w + 1)
           /\ carry_out.children[3].nbits = w + 1
           /\ \A env \in EnvironmentsOf(call.args) :
                LET va == Eval(a, env)
                    vb == Eval(b, env)
                    vc == Eval(c, env)
                IN /\ Eval(sum, env) = (va + vb + vc) % (2 ^ w)
                   /\ Eval(carry_out.children[3], env) =
                        BitXor(va, BitXor(vb, va + vb + vc))
                   /\ \A i \in 0 .. w - 1 :
                        Bit(Eval(carry_out, env), i) = CarryOutOf(va, vb, vc, i)

\* The addends of the documentation: 00110110 + 11100100 leaves the carries
\* 11100100.
C34_Witness ==
    /\ Called("addWithCarries")
    /\ call.args = <<Known(8, 54), Known(8, 228), Known(1, 0)>>
    /\ Eval(result.value.carry_out, [name \in VariableNames \cup CarryNames |-> 0]) = 228
    /\ result.value.sum = Known(8, 26)

\* Unknown addends and an unknown carry.
C34_WitnessUnknown ==
    /\ Called("addWithCarries")
    /\ \A i \in 1 .. 3 : ~is_known(call.args[i])
    /\ call.args[1] # call.args[2]
    /\ call.widths[1] = MaxWidth

====
